---- MODULE Spec2Model ----
(***************************************************************************)
(* Model of the EntangledHome conversation guardrail engine                *)
(* (custom_components/entangledhome/conversation.py).                      *)
(*                                                                         *)
(* Time is counted in whole seconds of the monotonic source, confidences   *)
(* and thresholds in hundredths (0.7 is 70).                               *)
(***************************************************************************)
EXTENDS Integers, Sequences, FiniteSets, TLC

VARIABLES
    guardrails,             \* self._guardrails: the normalized GuardrailBundle
    dedupe,                 \* self._dedupe: token -> monotonic time of last accepted execution
    last_shared_secret,     \* self._last_shared_secret: <<>> is None, <<s>> is the string s
    adapter_shared_secret,  \* self._adapter._shared_secret
    clock,                  \* the value the monotonic source returns next
    call,                   \* the finished async_handle call the caller has not consumed yet
    intent_executor,        \* self._intent_executor: an injected callable or async_execute_intent
    wire,                   \* the last AdapterClient.interpret call: the request sent and its result
    service,                \* the adapter service: its settings and the /interpret request in hand
    catalog_cache,          \* CATALOG_CACHE of the adapter service and the get call in hand
    telemetry_recorder,     \* a TelemetryRecorder: its capacity and its deque of events
    embedding_service,      \* an EmbeddingService: its cache, its lock and the embed calls in flight
    tasks,                  \* async_handle coroutines running interleaved on one event loop
    guardrail_config,       \* the raw mapping last given to GuardrailBundle.from_mapping
    model_client,           \* a ModelClient.stream call: the upstream chunks, the buffer, the responses
    streaming_model         \* a StreamingModel.stream call: its searches, its candidates, its repairs

\* The components modelled on their own, outside the conversation handler
components == <<catalog_cache, telemetry_recorder, embedding_service, tasks, guardrail_config,
                model_client, streaming_model>>

vars == <<guardrails, dedupe, last_shared_secret, adapter_shared_secret, clock, call,
          intent_executor, wire, service, components>>

\* No component is in use
ComponentsIdle ==
    /\ catalog_cache = <<>>
    /\ telemetry_recorder = <<>>
    /\ embedding_service = <<>>
    /\ tasks = <<>>
    /\ guardrail_config = <<>>
    /\ model_client = <<>>
    /\ streaming_model = <<>>

-----------------------------------------------------------------------------
(* Bounds of the model *)

MaxTime == 4
MaxLatency == 1

(* const.py *)
DEFAULT_CONFIDENCE_GATE == FALSE
DEFAULT_CONFIDENCE_THRESHOLD == 70
DEFAULT_NIGHT_MODE_ENABLED == FALSE
DEFAULT_NIGHT_MODE_START_HOUR == 23
DEFAULT_NIGHT_MODE_END_HOUR == 6
DEFAULT_DEDUPLICATION_WINDOW == 2

OPT_ENABLE_CONFIDENCE_GATE == "enable_confidence_gate"
OPT_CONFIDENCE_THRESHOLD == "confidence_threshold"
OPT_NIGHT_MODE_ENABLED == "night_mode_enabled"
OPT_NIGHT_MODE_START_HOUR == "night_mode_start_hour"
OPT_NIGHT_MODE_END_HOUR == "night_mode_end_hour"
OPT_DEDUPLICATION_WINDOW == "deduplication_window_seconds"
OPT_ADAPTER_SHARED_SECRET == "adapter_shared_secret"

-----------------------------------------------------------------------------
(* The values the environment supplies *)

Hours == {3, 12, 22}

\* The intents the adapter itself answers with (the noop fallback is made
\* by the adapter client)
Intents == {"turn_on", "unlock_door", "open_garage"}

\* entry.options as the handler reads it: a mapping in which any key may be
\* absent. The empty mapping selects every default.
GateOptions ==
    { [enable_confidence_gate |-> g[1],
       confidence_threshold |-> g[2],
       deduplication_window_seconds |-> w,
       night_mode_enabled |-> FALSE] :
         g \in {<<FALSE, 50>>, <<TRUE, 50>>, <<TRUE, 80>>}, w \in {0, 2} }

NightOptions ==
    { [night_mode_enabled |-> TRUE,
       night_mode_start_hour |-> 23,
       night_mode_end_hour |-> 6,
       enable_confidence_gate |-> TRUE,
       confidence_threshold |-> 80],
      [night_mode_enabled |-> TRUE,
       night_mode_start_hour |-> 23,
       night_mode_end_hour |-> 6,
       deduplication_window_seconds |-> 0] }

OptionsSet == {<<>>} \cup GateOptions \cup NightOptions

\* dict.get(key, default)
get(mapping, key, default) ==
    IF key \in DOMAIN mapping THEN mapping[key] ELSE default

-----------------------------------------------------------------------------
(* Python values carried in InterpretResponse.params *)

PyNone == [type |-> "none", text |-> "", items |-> <<>>]
PyBool(b) == [type |-> "bool", text |-> IF b THEN "True" ELSE "False", items |-> <<>>]
PyStr(s) == [type |-> "str", text |-> s, items |-> <<>>]
PyList(items) == [type |-> "list", text |-> "", items |-> items]

\* bool(value)
Truthy(v) ==
    CASE v.type = "none" -> FALSE
      [] v.type = "bool" -> v.text = "True"
      [] v.type = "str" -> v.text # ""
      [] v.type = "list" -> v.items # <<>>

\* a or b
PyOr(a, b) == IF Truthy(a) THEN a ELSE b

\* str.strip() leaves nothing
Blank(s) == s \in {"", " "}

\* isinstance(flags, str) and flags.strip()
NonBlankStr(v) == v.type = "str" /\ ~Blank(v.text)

\* isinstance(flags, (list, tuple, set)) and any(str(flag).strip() for flag in flags)
AnyNonBlank(v) == v.type = "list" /\ \E i \in 1..Len(v.items) : ~Blank(v.items[i])

\* params["verification"]: absent, or a mapping
NoVerification == [type |-> "none", flags |-> PyNone, confirmed |-> PyNone, verified |-> PyNone]
Verification(flags, confirmed, verified) ==
    [type |-> "dict", flags |-> flags, confirmed |-> confirmed, verified |-> verified]

Params(flags, verification, verified) ==
    [verification_flags |-> flags, verification |-> verification, verified |-> verified,
     reason |-> PyNone, utterance |-> PyNone]

NoParams == Params(PyNone, NoVerification, PyNone)

\* str.lower() on the signal names in use
Lower(s) ==
    CASE s \in {"Presence", "PRESENCE", "presence"} -> "presence"
      [] s \in {"Voice", "voice"} -> "voice"
      [] OTHER -> s

-----------------------------------------------------------------------------
(* Responses the adapter may return *)

Confidences == {72, 95}

RequiredSignalLists == {<<>>, <<"Presence">>, <<"Presence", "voice">>}

ProvidedSignalSets == {{}, {"PRESENCE"}, {"presence", "Voice"}}

ParamsOf(intent) ==
    CASE intent = "turn_on" -> {NoParams}
      [] intent = "unlock_door" ->
            { NoParams,
              Params(PyNone, NoVerification, PyBool(TRUE)),
              Params(PyNone, NoVerification, PyBool(FALSE)) }
      [] intent = "open_garage" ->
            { NoParams,
              Params(PyList(<<" ">>), NoVerification, PyNone),
              Params(PyList(<<"pin">>), NoVerification, PyNone),
              Params(PyNone, Verification(PyNone, PyStr("yes"), PyBool(TRUE)), PyNone) }

SignalsOf(intent) ==
    CASE intent = "turn_on" -> RequiredSignalLists
      [] intent = "unlock_door" -> {<<>>, <<"Presence">>}
      [] intent = "open_garage" -> {<<>>}

Response(intent, params, confidence, required) ==
    [intent |-> intent, area |-> "None", targets |-> <<>>, params |-> params,
     confidence |-> confidence, required_secondary_signals |-> required,
     adapter_error |-> <<>>]

Responses ==
    UNION { { Response(i, p, c, r) : p \in ParamsOf(i), c \in Confidences, r \in SignalsOf(i) }
            : i \in Intents }

-----------------------------------------------------------------------------
(* GuardrailBundle *)

GuardrailBundle(thresholds, disabled, dangerous, allowed, windows) ==
    [intent_thresholds |-> thresholds,
     disabled_intents |-> disabled,
     dangerous_intents |-> dangerous,
     allowed_hours |-> allowed,
     recent_command_windows |-> windows]

GuardrailConfigs ==
    { GuardrailBundle("unlock_door" :> 90, {}, {"unlock_door", "open_garage"},
                      "unlock_door" :> <<7, 21>>, "unlock_door" :> 3),
      GuardrailBundle(("turn_on" :> 60) @@ ("open_garage" :> 90), {"open_garage"},
                      {"unlock_door"}, "unlock_door" :> <<22, 6>>, "turn_on" :> 3) }

\* is_disabled looking in the dangerous set
is_disabled_wrong_set(g, intent) == intent \in g.dangerous_intents

is_disabled(g, intent) == intent \in g.disabled_intents
is_dangerous(g, intent) == intent \in g.dangerous_intents

\* intent_config without the per-intent dedupe window
intent_config_no_window(g, intent) ==
    (IF intent \in DOMAIN g.intent_thresholds
        THEN "confidence_threshold" :> g.intent_thresholds[intent] ELSE <<>>)
    @@ (IF intent \in DOMAIN g.allowed_hours
        THEN "allowed_hours" :> g.allowed_hours[intent] ELSE <<>>)
    @@ (IF is_dangerous(g, intent) THEN "dangerous" :> TRUE ELSE <<>>)
    @@ (IF is_disabled(g, intent) THEN "disabled" :> TRUE ELSE <<>>)

\* GuardrailBundle.intent_config: only the configured keys are present
intent_config(g, intent) ==
    (IF intent \in DOMAIN g.intent_thresholds
        THEN "confidence_threshold" :> g.intent_thresholds[intent] ELSE <<>>)
    @@ (IF intent \in DOMAIN g.recent_command_windows
        THEN "recent_command_window" :> g.recent_command_windows[intent] ELSE <<>>)
    @@ (IF intent \in DOMAIN g.allowed_hours
        THEN "allowed_hours" :> g.allowed_hours[intent] ELSE <<>>)
    @@ (IF is_dangerous(g, intent) THEN "dangerous" :> TRUE ELSE <<>>)
    @@ (IF is_disabled(g, intent) THEN "disabled" :> TRUE ELSE <<>>)

-----------------------------------------------------------------------------
(* EntangledHomeConversationHandler: the helpers of async_handle *)

\* Line 250: threshold_override is not None and response.confidence < threshold_override
_threshold_blocked_inverted(response, cfg) ==
    /\ "confidence_threshold" \in DOMAIN cfg
    /\ response.confidence > cfg["confidence_threshold"]

_threshold_blocked(response, cfg) ==
    /\ "confidence_threshold" \in DOMAIN cfg
    /\ response.confidence < cfg["confidence_threshold"]

\* options.get(OPT_ENABLE_CONFIDENCE_GATE, ...) and response.confidence < threshold
_confidence_blocked(response, options) ==
    IF ~get(options, OPT_ENABLE_CONFIDENCE_GATE, DEFAULT_CONFIDENCE_GATE)
    THEN FALSE
    ELSE response.confidence
            < get(options, OPT_CONFIDENCE_THRESHOLD, DEFAULT_CONFIDENCE_THRESHOLD)

\* _night_mode_active with the wrap-around branch lost
_night_mode_active_no_wrap(options, now) ==
    IF ~get(options, OPT_NIGHT_MODE_ENABLED, DEFAULT_NIGHT_MODE_ENABLED)
    THEN FALSE
    ELSE LET start == get(options, OPT_NIGHT_MODE_START_HOUR, DEFAULT_NIGHT_MODE_START_HOUR)
             end == get(options, OPT_NIGHT_MODE_END_HOUR, DEFAULT_NIGHT_MODE_END_HOUR)
             hour == now[1]
         IN IF start = end THEN TRUE
            ELSE start <= hour /\ hour < end

\* _night_mode_active with the end hour taken as part of the window
_night_mode_active_inclusive_end(options, now) ==
    IF ~get(options, OPT_NIGHT_MODE_ENABLED, DEFAULT_NIGHT_MODE_ENABLED)
    THEN FALSE
    ELSE LET start == get(options, OPT_NIGHT_MODE_START_HOUR, DEFAULT_NIGHT_MODE_START_HOUR)
             end == get(options, OPT_NIGHT_MODE_END_HOUR, DEFAULT_NIGHT_MODE_END_HOUR)
             hour == now[1]
         IN IF start = end THEN TRUE
            ELSE IF start < end THEN start <= hour /\ hour <= end
            ELSE hour >= start \/ hour <= end

\* now is <<>> when self._now() is not read, <<hour>> when it is
_night_mode_active(options, now) ==
    IF ~get(options, OPT_NIGHT_MODE_ENABLED, DEFAULT_NIGHT_MODE_ENABLED)
    THEN FALSE
    ELSE LET start == get(options, OPT_NIGHT_MODE_START_HOUR, DEFAULT_NIGHT_MODE_START_HOUR)
             end == get(options, OPT_NIGHT_MODE_END_HOUR, DEFAULT_NIGHT_MODE_END_HOUR)
             hour == now[1]
         IN IF start = end THEN TRUE
            ELSE IF start < end THEN start <= hour /\ hour < end
            ELSE hour >= start \/ hour < end

\* The sha256 of the canonical JSON of these four fields, taken as collision free
_response_token(response) ==
    [intent |-> response.intent,
     area |-> response.area,
     targets |-> response.targets,
     params |-> response.params]

\* _prune_dedupe leaving the map as it is when the window is not positive
_prune_dedupe_no_clear(map, current, window) ==
    IF window <= 0
    THEN map
    ELSE LET expired == {token \in DOMAIN map : current - map[token] >= window}
         IN [token \in (DOMAIN map) \ expired |-> map[token]]

\* The dedupe map after pruning with the window of the evaluation in progress
_prune_dedupe(map, current, window) ==
    IF window <= 0
    THEN <<>>
    ELSE LET expired == {token \in DOMAIN map : current - map[token] >= window}
         IN [token \in (DOMAIN map) \ expired |-> map[token]]

\* _is_recent_duplicate with the comparison turned round
_is_recent_duplicate_inverted(map, token, current, window) ==
    IF token \notin DOMAIN map
    THEN FALSE
    ELSE current - map[token] > window

_is_recent_duplicate(map, token, current, window) ==
    IF token \notin DOMAIN map
    THEN FALSE
    ELSE current - map[token] < window

\* _missing_secondary_signals comparing the provided names as they are
_missing_secondary_signals_case_sensitive(response, provided) ==
    LET required == response.required_secondary_signals
    IN IF required = <<>>
       THEN <<>>
       ELSE LET absent(signal) == Lower(signal) \notin provided[1]
            IN SelectSeq(required, absent)

\* provided is <<>> when the provider is not called, <<signals>> when it is
_missing_secondary_signals(response, provided) ==
    LET required == response.required_secondary_signals
    IN IF required = <<>>
       THEN <<>>
       ELSE LET lowered == {Lower(signal) : signal \in provided[1]}
                absent(signal) == Lower(signal) \notin lowered
            IN SelectSeq(required, absent)

RECURSIVE Join(_)
\* ", ".join(items)
Join(items) ==
    IF items = <<>> THEN ""
    ELSE IF Len(items) = 1 THEN items[1]
    ELSE items[1] \o ", " \o Join(Tail(items))

_format_secondary_signal_message(missing) ==
    LET detail == Join(missing)
    IN IF detail = ""
       THEN "Secondary signals required."
       ELSE "Secondary signals required: " \o detail \o "."

\* _within_allowed_hours with the wrap-around test in the start < end branch
_within_allowed_hours_or(hours, current) ==
    LET start == hours[1]
        end == hours[2]
    IN IF start = end THEN TRUE
       ELSE current >= start \/ current < end

\* _within_allowed_hours taking a window with start = end as empty
_within_allowed_hours_empty_window(hours, current) ==
    LET start == hours[1]
        end == hours[2]
    IN IF start = end THEN FALSE
       ELSE IF start < end THEN start <= current /\ current < end
       ELSE current >= start \/ current < end

_within_allowed_hours(hours, current) ==
    LET start == hours[1]
        end == hours[2]
    IN IF start = end THEN TRUE
       ELSE IF start < end THEN start <= current /\ current < end
       ELSE current >= start \/ current < end

\* _has_verification_flags returning True for any boolean params["verified"]
_has_verification_flags_any_bool(response) ==
    LET params == response.params
        flags == params.verification_flags
        verification == params.verification
    IN IF NonBlankStr(flags) THEN TRUE
       ELSE IF AnyNonBlank(flags) THEN TRUE
       ELSE IF verification.type = "dict" /\ NonBlankStr(verification.flags) THEN TRUE
       ELSE IF verification.type = "dict" /\ AnyNonBlank(verification.flags) THEN TRUE
       ELSE IF verification.type = "dict"
               /\ LET confirmed == PyOr(verification.confirmed, verification.verified)
                  IN confirmed.type = "bool" /\ confirmed.text = "True"
            THEN TRUE
       ELSE params.verified.type = "bool"

_has_verification_flags(response) ==
    LET params == response.params
        flags == params.verification_flags
        verification == params.verification
    IN IF NonBlankStr(flags) THEN TRUE
       ELSE IF AnyNonBlank(flags) THEN TRUE
       ELSE IF verification.type = "dict" /\ NonBlankStr(verification.flags) THEN TRUE
       ELSE IF verification.type = "dict" /\ AnyNonBlank(verification.flags) THEN TRUE
       ELSE IF verification.type = "dict"
               /\ LET confirmed == PyOr(verification.confirmed, verification.verified)
                  IN confirmed.type = "bool" /\ confirmed.text = "True"
            THEN TRUE
       ELSE IF params.verified.type = "bool" THEN params.verified.text = "True"
       ELSE FALSE

-----------------------------------------------------------------------------
(* AdapterClient (adapter_client.py) *)

SIGNATURE_HEADER == "X-Entangled-Signature"

\* hmac.new(key, body, hashlib.sha256).hexdigest(): the digest written as the
\* text of its two arguments, so that two digests are equal exactly when
\* key and body are (HMAC-SHA256 taken as collision free)
HmacSha256(key, body) == "hmac-sha256(" \o key \o ")(" \o body \o ")"

\* What `await client.post(...)` followed by response.raise_for_status() gives:
\* an httpx.HTTPStatusError, another httpx.HTTPError, or a 2xx response
HTTPStatusError(status, text) == [kind |-> "HTTPStatusError", status |-> status, text |-> text]
HTTPError(text) == [kind |-> "HTTPError", status |-> 0, text |-> text]

\* A 2xx response whose body is not JSON, is JSON that fails RESPONSE_SCHEMA,
\* or is a valid InterpretResponse
InvalidJson == [kind |-> "response", status |-> 200, json |-> FALSE, schema |-> FALSE,
                text |-> "Expecting value: line 1 column 1 (char 0)"]
SchemaInvalid == [kind |-> "response", status |-> 200, json |-> TRUE, schema |-> FALSE,
                  text |-> "'intent' is a required property"]
Valid(response) == [kind |-> "response", status |-> 200, json |-> TRUE, schema |-> TRUE,
                    text |-> "", data |-> response]

Utterance == "dim the lights"

\* _build_signature with the empty-secret test lost
_build_signature_always(shared_secret, body) ==
    <<HmacSha256(shared_secret, body)>>

\* <<>> is None
_build_signature(shared_secret, body) ==
    IF shared_secret = "" THEN <<>> ELSE <<HmacSha256(shared_secret, body)>>

_failure_response(utterance, reason, adapter_error) ==
    [intent |-> "noop", area |-> "None", targets |-> <<>>,
     params |-> [NoParams EXCEPT !.reason = PyStr(reason), !.utterance = PyStr(utterance)],
     confidence |-> 0, required_secondary_signals |-> <<>>,
     adapter_error |-> <<adapter_error>>]

Raised(error) == [raised |-> TRUE, error |-> error]
Returned(response) == [raised |-> FALSE, response |-> response]

\* interpret without the handler for transport errors
AdapterClient_interpret_no_transport_handler(utterance, post) ==
    IF post.kind = "HTTPStatusError"
    THEN IF post.status = 401
         THEN Raised("AdapterClientError")
         ELSE Returned(_failure_response(utterance, "Adapter request failed", post.text))
    ELSE IF post.kind = "HTTPError"
    THEN Raised("HTTPError")
    ELSE IF ~post.json
    THEN Returned(_failure_response(utterance, "Adapter returned invalid JSON", post.text))
    ELSE IF ~post.schema
    THEN Returned(_failure_response(utterance, "Adapter response failed validation", post.text))
    ELSE Returned(post.data)

\* interpret turning every HTTP status error into the noop fallback
AdapterClient_interpret_swallow_401(utterance, post) ==
    IF post.kind = "HTTPStatusError"
    THEN Returned(_failure_response(utterance, "Adapter request failed", post.text))
    ELSE IF post.kind = "HTTPError"
    THEN Returned(_failure_response(utterance, "Adapter request failed", post.text))
    ELSE IF ~post.json
    THEN Returned(_failure_response(utterance, "Adapter returned invalid JSON", post.text))
    ELSE IF ~post.schema
    THEN Returned(_failure_response(utterance, "Adapter response failed validation", post.text))
    ELSE Returned(post.data)

\* Lines 80-146 of interpret: what the call gives for an outcome of the post
AdapterClient_interpret(utterance, post) ==
    IF post.kind = "HTTPStatusError"
    THEN IF post.status = 401
         THEN Raised("AdapterClientError")
         ELSE Returned(_failure_response(utterance, "Adapter request failed", post.text))
    ELSE IF post.kind = "HTTPError"
    THEN Returned(_failure_response(utterance, "Adapter request failed", post.text))
    ELSE IF ~post.json
    THEN Returned(_failure_response(utterance, "Adapter returned invalid JSON", post.text))
    ELSE IF ~post.schema
    THEN Returned(_failure_response(utterance, "Adapter response failed validation", post.text))
    ELSE Returned(post.data)

Unauthorized == HTTPStatusError(401, "Client error '401 Unauthorized'")

\* The failures of the adapter call: the two kinds of status error, a read
\* timeout (whose text httpx leaves empty), a refused connection, an
\* unparsable body and a body that fails the schema
AdapterFailures ==
    { Unauthorized,
      HTTPStatusError(500, "Server error '500 Internal Server Error'"),
      HTTPError(""),
      HTTPError("All connection attempts failed"),
      InvalidJson,
      SchemaInvalid }

\* The adapter answers, or rejects the signature
AnsweredPosts(responses) == {Unauthorized} \cup { Valid(response) : response \in responses }

\* The adapter answers, or the call fails in any of the ways above
PostOutcomes(responses) == AdapterFailures \cup { Valid(response) : response \in responses }

-----------------------------------------------------------------------------
(* async_execute_intent (intent_handlers.py) *)

CONFIDENCE_THRESHOLD == 60

DEFAULT_UNKNOWN_REASON == "Unknown intent failure"

EXECUTORS ==
    { "set_light_color", "turn_on", "turn_off", "set_brightness", "scene_activate",
      "report_sensor", "media_play", "media_pause", "play_title", "noop" }

_intent_disabled(cfg) ==
    \/ get(cfg, "disabled", FALSE)
    \/ "enabled" \in DOMAIN cfg /\ ~cfg["enabled"]

\* What a call of the executor does: it returns, raises IntentHandlingError
\* with a text, or raises something else; service_calls counts the calls of
\* hass.services.async_call it made
ExecutorResult(kind, text, service_calls) ==
    [kind |-> kind, text |-> text, service_calls |-> service_calls]

\* params.get("reason") or fallback
ReasonOr(params, fallback) ==
    IF params.reason.type = "str" /\ params.reason.text # ""
    THEN params.reason.text
    ELSE fallback

\* async_execute_intent without the confidence check
async_execute_intent_no_confidence_check(response, cfg) ==
    { ExecutorResult("ok", "", 1),
      ExecutorResult("IntentHandlingError", "boom", 0),
      ExecutorResult("Exception", "", 1) }

\* The set of ways async_execute_intent may end for a response. A handler
\* other than _handle_noop resolves its target and calls a service: it may
\* raise IntentHandlingError before the call, or the call returns or raises
async_execute_intent(response, cfg) ==
    IF response.confidence < CONFIDENCE_THRESHOLD
    THEN { ExecutorResult("IntentHandlingError",
                          ReasonOr(response.params, "Low confidence"), 0) }
    ELSE IF response.intent \notin EXECUTORS
    THEN { ExecutorResult("IntentHandlingError", "No executor registered", 0) }
    ELSE IF _intent_disabled(cfg)
    THEN { ExecutorResult("IntentHandlingError", "Intent is disabled", 0) }
    ELSE IF response.intent = "noop"
    THEN { ExecutorResult("IntentHandlingError",
                          ReasonOr(response.params, DEFAULT_UNKNOWN_REASON), 0) }
    ELSE { ExecutorResult("ok", "", 1),
           ExecutorResult("IntentHandlingError", "boom", 0),
           ExecutorResult("Exception", "", 1) }

-----------------------------------------------------------------------------
(* What one async_handle call read, did and returned *)

IdleCall == [state |-> "idle"]

\* AdapterClient.interpret has not been called
NoRequest == [state |-> "idle"]

\* The adapter service is not part of the run
NoService == [state |-> "absent"]

ExecutorOutcomes == {"ok", "IntentHandlingError", "Exception"}

\* An injected executor may end in any of the three ways
InjectedExecutorResults ==
    { ExecutorResult(kind, IF kind = "IntentHandlingError" THEN "boom" ELSE "", 0) :
        kind \in ExecutorOutcomes }

\* Lines 316-324: the call of self._intent_executor
ExecutorResults(response) ==
    IF intent_executor = "async_execute_intent"
    THEN async_execute_intent(response, intent_config(guardrails, response.intent))
    ELSE InjectedExecutorResults

\* Lines 326-330: the message for an IntentHandlingError
IntentHandlingMessage(text) ==
    IF text # "" THEN "Intent execution failed: " \o text ELSE "Intent execution failed."

\* The call record at entry: nothing read, nothing called yet
NewCall(options) ==
    [state |-> "returned",
     options |-> options,
     night_hour |-> <<>>,          \* the hour _night_mode_active read
     interpret_calls |-> 0,        \* calls of self._adapter.interpret
     adapter |-> <<>>,             \* how the post of that call ended: <<kind, status>>
     exception |-> "",             \* the exception async_handle let through, if any
     response |-> <<>>,            \* the response interpret returned
     now_value |-> <<>>,           \* the monotonic time read at the duplicate gate
     provided |-> <<>>,            \* what the secondary signal provider returned
     allowed_hour |-> <<>>,        \* the hour _within_allowed_hours read
     executor_calls |-> 0,         \* calls of self._intent_executor
     executor |-> "not_invoked",
     service_calls |-> 0,          \* calls of hass.services.async_call by the executor
     success |-> FALSE,
     message |-> "",
     reason |-> "",
     outcome |-> "",
     telemetry |-> <<>>,           \* outcomes passed to recorder.record_event
     telemetry_errors |-> 0,       \* exceptions of record_event that were swallowed
     log |-> <<>>]                 \* entangled_guardrail log payloads

_emit_guardrail_log(c, reason, outcome) ==
    [c EXCEPT !.log = Append(@, [reason |-> reason, outcome |-> outcome])]

\* self._telemetry is a recorder whose record_event raises
RecorderRaises == telemetry_recorder # <<>> /\ telemetry_recorder.raises

\* _record_telemetry without its try: the exception of record_event leaves
\* async_handle
_record_telemetry_no_except(c, outcome) ==
    LET passed == [c EXCEPT !.telemetry = Append(@, outcome)]
    IN IF RecorderRaises THEN [passed EXCEPT !.exception = "RuntimeError"] ELSE passed

\* _record_telemetry, lines 455-476: record_event is called, and whatever
\* Exception it raises is dropped
_record_telemetry(c, outcome) ==
    LET passed == [c EXCEPT !.telemetry = Append(@, outcome)]
    IN IF RecorderRaises THEN [passed EXCEPT !.telemetry_errors = @ + 1] ELSE passed

_guardrail_block(c, message, reason) ==
    [_emit_guardrail_log(c, reason, "blocked") EXCEPT
        !.success = FALSE, !.message = message, !.reason = reason, !.outcome = "blocked"]

_executor_failure_result(c, message) ==
    [_record_telemetry(c, "failed") EXCEPT
        !.success = FALSE, !.message = message, !.outcome = "failed"]

\* Lines 348-374: telemetry, the intent_executed log entry and the result
_executed_result(c) ==
    [_emit_guardrail_log(_record_telemetry(c, "executed"), "intent_executed", "executed") EXCEPT
        !.success = TRUE, !.message = "Intent executed successfully.",
        !.reason = "intent_executed", !.outcome = "executed"]

\* The handler returns (or raises) c, leaving the dedupe map as map at time now
Finish(c, map, now) ==
    /\ call' = c
    /\ dedupe' = map
    /\ clock' = now
    /\ UNCHANGED <<intent_executor, wire, service, components>>

\* _apply_adapter_shared_secret pushing the secret on the first call only
_apply_adapter_shared_secret_once(options) ==
    LET raw == get(options, OPT_ADAPTER_SHARED_SECRET, "")
        secret == IF raw = "" THEN "" ELSE raw
    IN IF last_shared_secret # <<>>
       THEN UNCHANGED <<last_shared_secret, adapter_shared_secret>>
       ELSE /\ adapter_shared_secret' = secret
            /\ last_shared_secret' = <<secret>>

_apply_adapter_shared_secret(options) ==
    LET raw == get(options, OPT_ADAPTER_SHARED_SECRET, "")
        secret == IF raw = "" THEN "" ELSE raw
    IN IF last_shared_secret = <<secret>>
       THEN UNCHANGED <<last_shared_secret, adapter_shared_secret>>
       ELSE /\ adapter_shared_secret' = secret
            /\ last_shared_secret' = <<secret>>

-----------------------------------------------------------------------------
(* async_handle, gate by gate *)

\* Execute with the dedupe timestamp written before the executor is awaited
Execute_timestamp_first(c, response, window, now_value, pruned) ==
    \E result \in ExecutorResults(response) :
        LET c1 == [c EXCEPT !.executor = result.kind, !.executor_calls = @ + 1,
                            !.service_calls = result.service_calls]
            written == IF window > 0
                       THEN (_response_token(response) :> now_value) @@ pruned
                       ELSE pruned
        IN CASE result.kind = "IntentHandlingError" ->
                    Finish(_executor_failure_result(c1, IntentHandlingMessage(result.text)),
                           written, now_value)
             [] result.kind = "Exception" ->
                    Finish(_executor_failure_result(
                               c1, "Intent execution failed due to an unexpected error."),
                           written, now_value)
             [] result.kind = "ok" ->
                    Finish(_executed_result(c1), written, now_value)

\* Lines 316-374: the executor call and what follows it
Execute(c, response, window, now_value, pruned) ==
    \E result \in ExecutorResults(response) :
        LET c1 == [c EXCEPT !.executor = result.kind, !.executor_calls = @ + 1,
                            !.service_calls = result.service_calls]
        IN CASE result.kind = "IntentHandlingError" ->
                    Finish(_executor_failure_result(c1, IntentHandlingMessage(result.text)),
                           pruned, now_value)
             [] result.kind = "Exception" ->
                    Finish(_executor_failure_result(
                               c1, "Intent execution failed due to an unexpected error."),
                           pruned, now_value)
             [] result.kind = "ok" ->
                    Finish(_executed_result(c1),
                           IF window > 0
                           THEN (_response_token(response) :> now_value) @@ pruned
                           ELSE pruned,
                           now_value)

\* Lines 299-314: dangerous intents
DangerousGate(c, response, cfg, window, now_value, pruned) ==
    IF ~get(cfg, "dangerous", FALSE)
    THEN Execute(c, response, window, now_value, pruned)
    ELSE IF "allowed_hours" \in DOMAIN cfg
    THEN \E hour \in Hours :
            LET c1 == [c EXCEPT !.allowed_hour = <<hour>>]
            IN IF ~_within_allowed_hours(cfg["allowed_hours"], hour)
               THEN Finish(_guardrail_block(c1, "Intent is restricted to allowed hours.",
                                            "dangerous_intent_after_hours"),
                           pruned, now_value)
               ELSE IF ~_has_verification_flags(response)
               THEN Finish(_guardrail_block(
                               c1, "Additional verification required before executing this intent.",
                               "dangerous_intent_missing_verification"),
                           pruned, now_value)
               ELSE Execute(c1, response, window, now_value, pruned)
    ELSE IF ~_has_verification_flags(response)
    THEN Finish(_guardrail_block(
                    c, "Additional verification required before executing this intent.",
                    "dangerous_intent_missing_verification"),
                pruned, now_value)
    ELSE Execute(c, response, window, now_value, pruned)

\* Lines 289-297: secondary signals
SecondarySignalGate(c, response, cfg, window, now_value, pruned) ==
    \E provided \in (IF response.required_secondary_signals = <<>>
                     THEN {<<>>}
                     ELSE {<<signals>> : signals \in ProvidedSignalSets}) :
        LET c1 == [c EXCEPT !.provided = provided]
            missing_signals == _missing_secondary_signals(response, provided)
        IN IF missing_signals # <<>>
           THEN Finish(_guardrail_block(c1, _format_secondary_signal_message(missing_signals),
                                        "missing_secondary_signals"),
                       pruned, now_value)
           ELSE DangerousGate(c1, response, cfg, window, now_value, pruned)

\* DuplicateGate storing the time of the blocked repeat
DuplicateGate_refresh(c, response, cfg, window, now_value) ==
    LET token == _response_token(response)
        pruned == _prune_dedupe(dedupe, now_value, window)
        c1 == [c EXCEPT !.now_value = <<now_value>>]
    IN IF window > 0 /\ _is_recent_duplicate(pruned, token, now_value, window)
       THEN Finish(_guardrail_block(c1, "Duplicate command suppressed.", "duplicate_suppressed"),
                   (token :> now_value) @@ pruned, now_value)
       ELSE SecondarySignalGate(c1, response, cfg, window, now_value, pruned)

\* Lines 276-287: prune, then suppress a recent duplicate
DuplicateGate(c, response, cfg, window, now_value) ==
    LET token == _response_token(response)
        pruned == _prune_dedupe(dedupe, now_value, window)
        c1 == [c EXCEPT !.now_value = <<now_value>>]
    IN IF window > 0 /\ _is_recent_duplicate(pruned, token, now_value, window)
       THEN Finish(_guardrail_block(c1, "Duplicate command suppressed.", "duplicate_suppressed"),
                   pruned, now_value)
       ELSE SecondarySignalGate(c1, response, cfg, window, now_value, pruned)

\* ConfidenceGates testing the per-intent threshold before the disabled set
ConfidenceGates_threshold_first(c, response, now_value) ==
    LET intent == response.intent
        cfg == intent_config(guardrails, intent)
        window == IF "recent_command_window" \in DOMAIN cfg
                  THEN cfg["recent_command_window"]
                  ELSE get(c.options, OPT_DEDUPLICATION_WINDOW, DEFAULT_DEDUPLICATION_WINDOW)
    IN IF _threshold_blocked(response, cfg)
       THEN Finish(_guardrail_block(c, "Confidence too low to execute safely.",
                                    "intent_threshold"),
                   dedupe, now_value)
       ELSE IF is_disabled(guardrails, intent)
       THEN Finish(_guardrail_block(c, "This intent is disabled by configuration.",
                                    "intent_disabled"),
                   dedupe, now_value)
       ELSE IF _confidence_blocked(response, c.options)
       THEN Finish(_guardrail_block(c, "Confidence too low to execute safely.",
                                    "confidence_gate"),
                   dedupe, now_value)
       ELSE DuplicateGate(c, response, cfg, window, now_value)

\* Lines 230-274: the per-intent configuration and the confidence gates
ConfidenceGates(c, response, now_value) ==
    LET intent == response.intent
        cfg == intent_config(guardrails, intent)
        window == IF "recent_command_window" \in DOMAIN cfg
                  THEN cfg["recent_command_window"]
                  ELSE get(c.options, OPT_DEDUPLICATION_WINDOW, DEFAULT_DEDUPLICATION_WINDOW)
    IN IF is_disabled(guardrails, intent)
       THEN Finish(_guardrail_block(c, "This intent is disabled by configuration.",
                                    "intent_disabled"),
                   dedupe, now_value)
       ELSE IF _threshold_blocked(response, cfg)
       THEN Finish(_guardrail_block(c, "Confidence too low to execute safely.",
                                    "intent_threshold"),
                   dedupe, now_value)
       ELSE IF _confidence_blocked(response, c.options)
       THEN Finish(_guardrail_block(c, "Confidence too low to execute safely.",
                                    "confidence_gate"),
                   dedupe, now_value)
       ELSE DuplicateGate(c, response, cfg, window, now_value)

\* Lines 227-228: after some latency the adapter call returns a response (the
\* adapter's, or the noop fallback) or raises, which ends async_handle
Interpret(c, posts) ==
    \E latency \in 0..MaxLatency, post \in posts :
        /\ clock + latency <= MaxTime
        /\ LET c1 == [c EXCEPT !.interpret_calls = @ + 1,
                               !.adapter = <<post.kind, post.status>>]
               result == AdapterClient_interpret(Utterance, post)
           IN IF result.raised
              THEN Finish([c1 EXCEPT !.state = "raised", !.exception = result.error],
                          dedupe, clock + latency)
              ELSE ConfidenceGates([c1 EXCEPT !.response = <<result.response>>],
                                   result.response, clock + latency)

\* async_handle under the options and adapter call outcomes of the given sets,
\* with the wall clock showing one of the given hours at the night-mode gate
HandleAt(optionsSet, posts, hours) ==
    /\ call.state = "idle"
    /\ UNCHANGED guardrails
    /\ \E options \in optionsSet :
        /\ _apply_adapter_shared_secret(options)
        /\ \E now \in (IF get(options, OPT_NIGHT_MODE_ENABLED, DEFAULT_NIGHT_MODE_ENABLED)
                       THEN {<<hour>> : hour \in hours}
                       ELSE {<<>>}) :
            LET c == [NewCall(options) EXCEPT !.night_hour = now]
            IN IF _night_mode_active(options, now)
               THEN Finish(_guardrail_block(c, "Night mode is active. Try again later.",
                                            "night_mode_active"),
                           dedupe, clock)
               ELSE Interpret(c, posts)

Handle(optionsSet, posts) == HandleAt(optionsSet, posts, Hours)

async_handle == Handle(OptionsSet, AnsweredPosts(Responses))

\* The caller takes the result (or the exception) of the finished call
Return ==
    /\ call.state # "idle"
    /\ call' = IdleCall
    /\ UNCHANGED <<guardrails, dedupe, last_shared_secret, adapter_shared_secret, clock,
                   intent_executor, wire, service, components>>

set_guardrail_config(config) ==
    /\ call.state = "idle"
    /\ guardrails' = config
    /\ guardrails' # guardrails
    /\ UNCHANGED <<dedupe, last_shared_secret, adapter_shared_secret, clock, call,
                   intent_executor, wire, service, components>>

\* A second passes on the monotonic clock
Tick ==
    /\ call.state = "idle"
    /\ clock < MaxTime
    /\ clock' = clock + 1
    /\ UNCHANGED <<guardrails, dedupe, last_shared_secret, adapter_shared_secret, call,
                   intent_executor, wire, service, components>>

Init ==
    /\ guardrails \in GuardrailConfigs
    /\ dedupe = <<>>
    /\ last_shared_secret = <<>>
    /\ adapter_shared_secret = ""
    /\ clock = 0
    /\ call = IdleCall
    /\ intent_executor = "injected"
    /\ wire = NoRequest
    /\ service = NoService
    /\ ComponentsIdle

Next ==
    \/ async_handle
    \/ Return
    \/ \E config \in GuardrailConfigs : set_guardrail_config(config)
    \/ Tick

Spec == Init /\ [][Next]_vars

-----------------------------------------------------------------------------
(* The handler as async_setup_entry builds it: the executor is              *)
(* async_execute_intent, and the adapter call may fail in every way         *)

ProductionInit ==
    /\ guardrails \in GuardrailConfigs
    /\ dedupe = <<>>
    /\ last_shared_secret = <<>>
    /\ adapter_shared_secret = ""
    /\ clock = 0
    /\ call = IdleCall
    /\ intent_executor = "async_execute_intent"
    /\ wire = NoRequest
    /\ service = NoService
    /\ ComponentsIdle

production_async_handle == Handle(OptionsSet, PostOutcomes(Responses))

ProductionNext ==
    \/ production_async_handle
    \/ Return
    \/ \E config \in GuardrailConfigs : set_guardrail_config(config)
    \/ Tick

ProductionSpec == ProductionInit /\ [][ProductionNext]_vars

-----------------------------------------------------------------------------
(* The adapter service's signature check (adapter_service/main.py) *)

\* _enforce_signature accepting any signature that is present
_enforce_signature_presence_only(shared_secret, body, provided) ==
    LET secret == IF shared_secret = <<>> THEN "" ELSE shared_secret[1]
    IN IF secret = "" THEN "ok"
       ELSE IF provided = <<>> \/ provided = <<"">> THEN "Missing signature"
       ELSE "ok"

\* shared_secret is SETTINGS.shared_secret and provided the header's value,
\* <<>> for None. The result is "ok" or the detail of the 401 raised
_enforce_signature(shared_secret, body, provided) ==
    LET secret == IF shared_secret = <<>> THEN "" ELSE shared_secret[1]
    IN IF secret = "" THEN "ok"
       ELSE IF provided = <<>> \/ provided = <<"">> THEN "Missing signature"
       ELSE IF provided[1] # HmacSha256(secret, body) THEN "Invalid signature"
       ELSE "ok"

\* Lines 637-639 of interpret: the check is made only if a secret is set
SignatureCheck(shared_secret, body, headers) ==
    IF shared_secret # <<>> /\ shared_secret[1] # ""
    THEN _enforce_signature(shared_secret, body,
                            IF SIGNATURE_HEADER \in DOMAIN headers
                            THEN <<headers[SIGNATURE_HEADER]>> ELSE <<>>)
    ELSE "ok"

-----------------------------------------------------------------------------
(* AdapterClient.interpret against a service that checks signatures *)

Utterances == {"dim the lights", "open the pod bay doors"}

\* catalog.model_dump(mode="json"), already serialized
Catalogs == {"{areas:[],entities:[],scenes:[],plex_media:[]}",
             "{areas:[{area_id:kitchen}],entities:[],scenes:[],plex_media:[]}"}

SharedSecrets == {<<>>, <<"">>, <<"alpha">>, <<"beta">>}

\* json.dumps(payload, ensure_ascii=False, separators=(",", ":")).encode("utf-8")
\* of the InterpretRequest: the fields in the order of the model
RequestBody(utterance, catalog) ==
    "{utterance:" \o utterance \o ",catalog:" \o catalog \o ",intents:{}}"

\* What the service sends back once it has accepted a request
ServiceAnswers ==
    { HTTPStatusError(500, "Server error '500 Internal Server Error'"),
      HTTPStatusError(404, "Client error '404 Not Found'"),
      InvalidJson,
      SchemaInvalid,
      Valid(Response("turn_on", NoParams, 95, <<>>)) }

\* client.post(...) and raise_for_status(): the transport fails, or the
\* service gets the request, checks the signature and answers
Post(body, headers) ==
    { HTTPError(""), HTTPError("All connection attempts failed") }
    \cup ( IF SignatureCheck(service.shared_secret, body, headers) # "ok"
           THEN { Unauthorized }
           ELSE ServiceAnswers )

\* AdapterClient.set_shared_secret
set_shared_secret(shared_secret) ==
    /\ wire.state = "idle"
    /\ adapter_shared_secret' = IF shared_secret = <<>> THEN "" ELSE shared_secret[1]
    /\ UNCHANGED <<guardrails, dedupe, last_shared_secret, clock, call, intent_executor,
                   wire, service, components>>

\* AdapterClient.interpret, lines 51-146
client_interpret ==
    /\ wire.state = "idle"
    /\ \E utterance \in Utterances, catalog \in Catalogs :
        LET body == RequestBody(utterance, catalog)
            signature == _build_signature(adapter_shared_secret, body)
            headers == ("Content-Type" :> "application/json")
                       @@ (IF signature # <<>>
                           THEN SIGNATURE_HEADER :> signature[1] ELSE <<>>)
        IN \E post \in Post(body, headers) :
            LET result == AdapterClient_interpret(utterance, post)
            IN wire' = [state |-> IF result.raised THEN "raised" ELSE "returned",
                        shared_secret |-> adapter_shared_secret,
                        utterance |-> utterance,
                        body |-> body,
                        headers |-> headers,
                        post |-> post,
                        result |-> result]
    /\ UNCHANGED <<guardrails, dedupe, last_shared_secret, adapter_shared_secret, clock,
                   call, intent_executor, service, components>>

\* The caller takes the response (or the exception)
ClientReturn ==
    /\ wire.state # "idle"
    /\ wire' = NoRequest
    /\ UNCHANGED <<guardrails, dedupe, last_shared_secret, adapter_shared_secret, clock,
                   call, intent_executor, service, components>>

ClientInit ==
    /\ guardrails \in GuardrailConfigs
    /\ dedupe = <<>>
    /\ last_shared_secret = <<>>
    /\ adapter_shared_secret = ""
    /\ clock = 0
    /\ call = IdleCall
    /\ intent_executor = "async_execute_intent"
    /\ wire = NoRequest
    /\ service \in { [state |-> "ready", shared_secret |-> secret] : secret \in SharedSecrets }
    /\ ComponentsIdle

ClientNext ==
    \/ \E shared_secret \in SharedSecrets : set_shared_secret(shared_secret)
    \/ client_interpret
    \/ ClientReturn

ClientSpec == ClientInit /\ [][ClientNext]_vars

-----------------------------------------------------------------------------
(* ModelClient (adapter_service/model.py) *)

\* A Python float, in hundredths. Every comparison with NaN is false
Float(value) == [nan |-> FALSE, value |-> value]
NaN == [nan |-> TRUE, value |-> 0]
Lt(x, y) == ~x.nan /\ ~y.nan /\ x.value < y.value

\* The builtins min(a, b) and max(a, b): the first argument unless the
\* second compares smaller (larger)
PyMin(a, b) == IF Lt(b, a) THEN b ELSE a
PyMax(a, b) == IF Lt(a, b) THEN b ELSE a

\* The "confidence" member of a parsed fragment: absent, a JSON number that
\* fits a float, a JSON string, the literal NaN (json.loads accepts it), or an
\* integer literal beyond the range of a float
Missing == [type |-> "missing", value |-> 0, text |-> ""]
Number(n) == [type |-> "number", value |-> n, text |-> ""]
Text(t) == [type |-> "text", value |-> 0, text |-> t]
NaNLiteral == [type |-> "nan", value |-> 0, text |-> ""]
HugeInteger == [type |-> "huge", value |-> 0, text |-> ""]

RawConfidences ==
    { Missing, Number(-40), Number(50), Number(86), Number(90), Number(140),
      Text("high"), NaNLiteral, HugeInteger }

\* float(confidence): the value, or the exception raised
float(confidence) ==
    CASE confidence.type = "number" -> [raised |-> "", value |-> Float(confidence.value)]
      [] confidence.type = "nan" -> [raised |-> "", value |-> NaN]
      [] confidence.type = "huge" -> [raised |-> "OverflowError", value |-> Float(0)]
      [] confidence.type = "text" ->
            IF confidence.text = "0.9" THEN [raised |-> "", value |-> Float(90)]
            ELSE IF confidence.text = "nan" THEN [raised |-> "", value |-> NaN]
            ELSE [raised |-> "ValueError", value |-> Float(0)]
      [] OTHER -> [raised |-> "TypeError", value |-> Float(0)]

\* One line of the upstream stream: text without a JSON object, JSON that is
\* not an object (dict(5) raises TypeError), or an object with or without
\* the required intent
Garbage == [kind |-> "garbage", intent |-> "", confidence |-> Missing]
Scalar == [kind |-> "scalar", intent |-> "", confidence |-> Missing]
Object(intent, confidence) == [kind |-> "object", intent |-> intent, confidence |-> confidence]

Fragments ==
    { Garbage, Scalar, Object("", Number(90)) }
    \cup { Object("turn_on", confidence) : confidence \in RawConfidences }

Skipped == [kind |-> "skipped", response |-> <<>>]
Raises(error) == [kind |-> "raised", error |-> error, response |-> <<>>]
Yields(response) == [kind |-> "response", response |-> <<response>>]

\* _validate_response whose except branch falls back to full confidence
_validate_response_default_one(payload) ==
    LET confidence == IF payload.confidence.type = "missing"
                      THEN [raised |-> "", value |-> Float(0)]
                      ELSE float(payload.confidence)
    IN IF confidence.raised = "OverflowError" THEN Raises("OverflowError")
       ELSE LET confidence_value == IF confidence.raised # "" THEN Float(100)
                                    ELSE confidence.value
                clamped == PyMax(Float(0), PyMin(Float(100), confidence_value))
            IN IF payload.intent = "" \/ clamped.nan
                  \/ clamped.value < 0 \/ clamped.value > 100
               THEN Skipped
               ELSE Yields(Response(payload.intent, NoParams, clamped.value, <<>>))

\* ModelClient._validate_response: the default 0.0 for a missing member, 0.0
\* for TypeError and ValueError, any other exception propagates; then the
\* clamp, and the bounds of the InterpretResponse model (ge=0.0, le=1.0,
\* intent required), whose failure drops the fragment
_validate_response(payload) ==
    LET confidence == IF payload.confidence.type = "missing"
                      THEN [raised |-> "", value |-> Float(0)]
                      ELSE float(payload.confidence)
    IN IF confidence.raised = "OverflowError" THEN Raises("OverflowError")
       ELSE LET confidence_value == IF confidence.raised # "" THEN Float(0)
                                    ELSE confidence.value
                clamped == PyMax(Float(0), PyMin(Float(100), confidence_value))
            IN IF payload.intent = "" \/ clamped.nan
                  \/ clamped.value < 0 \/ clamped.value > 100
               THEN Skipped
               ELSE Yields(Response(payload.intent, NoParams, clamped.value, <<>>))

\* The body of _collect's loop for one line: _parse_json, then
\* _validate_response on what it returned
_collect(fragment) ==
    CASE fragment.kind = "garbage" -> Skipped
      [] fragment.kind = "scalar" -> Raises("TypeError")
      [] OTHER -> _validate_response(fragment)

\* ModelClient.stream, line 53, with a strict comparison
ModelClient_stream_break_strict(response, threshold) == response.confidence > threshold

\* ModelClient.stream, line 53
ModelClient_stream_break(response, threshold) == response.confidence >= threshold

-----------------------------------------------------------------------------
(* POST /interpret (adapter_service/main.py) *)

\* _fallback_response
_fallback_response(utterance, reason) ==
    [intent |-> "noop", area |-> "None", targets |-> <<>>,
     params |-> [NoParams EXCEPT !.reason = PyStr(reason), !.utterance = PyStr(utterance)],
     confidence |-> 0, required_secondary_signals |-> <<>>,
     adapter_error |-> <<reason>>]

MaxFragments == 3

\* What the upstream model may send for one request
Streams == UNION { [1..n -> Fragments] : n \in 0..MaxFragments }

ConfidenceThresholds == {50, 80}

\* Two request bodies that differ in one byte
ServiceUtterances == {"dim the lights", "dim the lightz"}
ServiceCatalog == "{areas:[],entities:[],scenes:[],plex_media:[]}"

\* The header a request may carry: none, or the signature of one of the
\* bodies under one of the secrets
Signatures ==
    { <<>> } \cup { <<HmacSha256(secret, RequestBody(utterance, ServiceCatalog))>> :
                    secret \in {"alpha", "beta"}, utterance \in ServiceUtterances }

\* SETTINGS and the state of the request in hand
ServiceReady(shared_secret, confidence_threshold, model) ==
    [state |-> "ready", shared_secret |-> shared_secret,
     confidence_threshold |-> confidence_threshold, model |-> model,
     consumer |-> "", utterance |-> "", body |-> "", signature |-> <<>>,
     status |-> 0, detail |-> "",
     stream |-> "none", fragments |-> <<>>, position |-> 0,
     chunks |-> <<>>, origins |-> <<>>, latest_response |-> <<>>, response |-> <<>>]

\* ModelClient.stream up to its first await: nothing to read without a model
ModelClient_stream(model) ==
    IF model = "" THEN { [stream |-> "unset", fragments |-> <<>>] }
    ELSE { [stream |-> "open", fragments |-> fragments] : fragments \in Streams }

\* StreamingModel.stream up to its loop: embedding or retrieval may fail, and
\* the generator then returns without yielding
StreamingModel_stream(model) ==
    { [stream |-> "setup_failed", fragments |-> <<>>] } \cup ModelClient_stream(model)

\* interpret, line 670
interpret_break(chunk, threshold) == chunk.confidence >= threshold

\* interpret, lines 673-706, returning the first chunk
interpret_return_first(s) ==
    [s EXCEPT !.state = "responded", !.status = 200,
              !.response = IF s.chunks = <<>>
                           THEN <<_fallback_response(s.utterance, "Adapter produced no response")>>
                           ELSE <<s.chunks[1]>>]

\* interpret, lines 673-706: the fallback if nothing was yielded, and the return
interpret_return(s) ==
    [s EXCEPT !.state = "responded", !.status = 200,
              !.response = IF s.latest_response = <<>>
                           THEN <<_fallback_response(s.utterance, "Adapter produced no response")>>
                           ELSE s.latest_response]

\* The end of the loop of the consumer
Exit(s) ==
    IF s.consumer = "interpret" THEN interpret_return(s)
    ELSE [s EXCEPT !.state = "responded"]

\* POST /interpret arrives: the signature check, then the handler up to the
\* first item of the stream
post_interpret ==
    /\ service.state = "ready"
    /\ \E utterance \in ServiceUtterances, signature \in Signatures :
        LET body == RequestBody(utterance, ServiceCatalog)
            headers == ("Content-Type" :> "application/json")
                       @@ (IF signature # <<>> THEN SIGNATURE_HEADER :> signature[1] ELSE <<>>)
            check == SignatureCheck(service.shared_secret, body, headers)
            request == [service EXCEPT !.consumer = "interpret", !.utterance = utterance,
                                       !.body = body, !.signature = signature]
        IN IF check # "ok"
           THEN service' = [request EXCEPT !.state = "responded", !.status = 401,
                                           !.detail = check]
           ELSE \E start \in StreamingModel_stream(service.model) :
                    service' = [request EXCEPT !.state = "streaming",
                                               !.stream = start.stream,
                                               !.fragments = start.fragments]
    /\ UNCHANGED <<guardrails, dedupe, last_shared_secret, adapter_shared_secret, clock,
                   call, intent_executor, wire, components>>

\* A caller that keeps every response of ModelClient.stream, as
\* tests/test_model_client.py does
collect_stream ==
    /\ service.state = "ready"
    /\ \E start \in ModelClient_stream(service.model) :
        service' = [service EXCEPT !.consumer = "collector", !.state = "streaming",
                                   !.utterance = "dim the lights",
                                   !.stream = start.stream, !.fragments = start.fragments]
    /\ UNCHANGED <<guardrails, dedupe, last_shared_secret, adapter_shared_secret, clock,
                   call, intent_executor, wire, components>>

\* The consumer asks for the next item: ModelClient reads lines until one
\* yields, raises or the stream ends. An exception ends StreamingModel.stream
\* silently and reaches the collector
stream_next ==
    /\ service.state = "streaming"
    /\ LET s == service
           next == s.position + 1
       IN IF s.stream # "open" THEN service' = Exit(s)
          ELSE IF s.position = Len(s.fragments)
          THEN service' = Exit([s EXCEPT !.stream = "exhausted"])
          ELSE LET outcome == _collect(s.fragments[next])
                   read == [s EXCEPT !.position = next]
               IN CASE outcome.kind = "skipped" -> service' = read
                    [] outcome.kind = "raised" ->
                          service' = IF s.consumer = "interpret"
                                     THEN Exit([read EXCEPT !.stream = "raised"])
                                     ELSE [read EXCEPT !.stream = "raised", !.state = "raised",
                                                       !.detail = outcome.error]
                    [] OTHER ->
                          LET chunk == outcome.response[1]
                              seen == [read EXCEPT !.chunks = Append(@, chunk),
                                                   !.origins = Append(@, next),
                                                   !.latest_response = <<chunk>>]
                          IN IF s.consumer = "interpret"
                                /\ interpret_break(chunk, s.confidence_threshold)
                             THEN service' = Exit([seen EXCEPT !.stream = "abandoned"])
                             ELSE IF ModelClient_stream_break(chunk, s.confidence_threshold)
                             THEN service' = [seen EXCEPT !.stream = "stopped"]
                             ELSE service' = seen
    /\ UNCHANGED <<guardrails, dedupe, last_shared_secret, adapter_shared_secret, clock,
                   call, intent_executor, wire, components>>

\* The response (or the exception) is delivered; the settings stay
service_done ==
    /\ service.state \in {"responded", "raised"}
    /\ service' = ServiceReady(service.shared_secret, service.confidence_threshold,
                               service.model)
    /\ UNCHANGED <<guardrails, dedupe, last_shared_secret, adapter_shared_secret, clock,
                   call, intent_executor, wire, components>>

ServiceInit ==
    /\ guardrails \in GuardrailConfigs
    /\ dedupe = <<>>
    /\ last_shared_secret = <<>>
    /\ adapter_shared_secret = ""
    /\ clock = 0
    /\ call = IdleCall
    /\ intent_executor = "async_execute_intent"
    /\ wire = NoRequest
    /\ service \in { ServiceReady(shared_secret, confidence_threshold, model) :
                        shared_secret \in {<<>>, <<"alpha">>},
                        confidence_threshold \in ConfidenceThresholds,
                        model \in {"", "gpt-4o-mini"} }
    /\ ComponentsIdle

ServiceNext ==
    \/ post_interpret
    \/ collect_stream
    \/ stream_next
    \/ service_done

ServiceSpec == ServiceInit /\ [][ServiceNext]_vars

-----------------------------------------------------------------------------
(* Night mode over the whole clock: every window (start, end) and every hour *)

AllHours == 0..23

\* entry.options with night mode on and any window, or with night mode off
NightSweepOptions ==
    { [night_mode_enabled |-> TRUE,
       night_mode_start_hour |-> start,
       night_mode_end_hour |-> end,
       deduplication_window_seconds |-> 0] : start \in AllHours, end \in AllHours }
    \cup { [night_mode_enabled |-> FALSE,
            night_mode_start_hour |-> 23,
            night_mode_end_hour |-> 6,
            deduplication_window_seconds |-> 0] }

NightSweepResponses == { Response("open_garage", Params(PyList(<<"pin">>), NoVerification, PyNone), 95, <<>>) }

night_async_handle == HandleAt(NightSweepOptions, AnsweredPosts(NightSweepResponses), AllHours)

NightNext ==
    \/ night_async_handle
    \/ Return

NightSpec == Init /\ [][NightNext]_vars

-----------------------------------------------------------------------------
(* Two async_handle coroutines of one handler, interleaved at their awaits   *)
(* (conversation.py lines 212-374). A coroutine runs without interruption    *)
(* from one await to the next: to the adapter call, from the adapter's       *)
(* answer to the executor call, and from the executor's completion to the    *)
(* end. The handler holds no lock.                                           *)

TaskIds == {"first", "second"}

\* The options and the adapter answers of the interleaved calls: the default
\* options and night mode; responses that pass every gate, and responses that
\* a gate before or after the duplicate gate stops
ConcurrentOptions ==
    { options \in OptionsSet :
        \/ options = <<>>
        \/ /\ get(options, OPT_NIGHT_MODE_ENABLED, FALSE)
           /\ OPT_DEDUPLICATION_WINDOW \notin DOMAIN options }

ConcurrentResponses ==
    { response \in Responses :
        \/ /\ response.intent = "turn_on"
           /\ Len(response.required_secondary_signals) <= 1
        \/ /\ response.intent = "unlock_door"
           /\ response.confidence = 95
           /\ response.required_secondary_signals = <<>>
           /\ response.params.verified = PyBool(TRUE) }

IdleTask == [pc |-> "idle"]

\* A coroutine suspended at the await named by pc, or done; c is its call record
Task(pc, c) == [pc |-> pc, c |-> c]

\* How the stretch from the adapter's answer to the executor call ends: the
\* call record, the dedupe map it leaves, and whether the executor is called
Stretch(c, map, go) == [c |-> c, map |-> map, go |-> go]

\* Lines 230-240: the dedupe window of the call
dedupe_window(c, response) ==
    LET cfg == intent_config(guardrails, response.intent)
    IN IF "recent_command_window" \in DOMAIN cfg
       THEN cfg["recent_command_window"]
       ELSE get(c.options, OPT_DEDUPLICATION_WINDOW, DEFAULT_DEDUPLICATION_WINDOW)

\* Lines 230-314: the gates between the adapter's answer and the executor
\* call. provided is what the signal provider returns and hour what the wall
\* clock shows, should the call get to read them
gates(c, response, now_value, provided, hour) ==
    LET intent == response.intent
        cfg == intent_config(guardrails, intent)
        window == dedupe_window(c, response)
        token == _response_token(response)
        pruned == _prune_dedupe(dedupe, now_value, window)
        c1 == [c EXCEPT !.now_value = <<now_value>>]
        c2 == IF response.required_secondary_signals = <<>>
              THEN c1 ELSE [c1 EXCEPT !.provided = <<provided>>]
        missing_signals == _missing_secondary_signals(response, c2.provided)
        c3 == IF get(cfg, "dangerous", FALSE) /\ "allowed_hours" \in DOMAIN cfg
              THEN [c2 EXCEPT !.allowed_hour = <<hour>>] ELSE c2
    IN IF is_disabled(guardrails, intent)
       THEN Stretch(_guardrail_block(c, "This intent is disabled by configuration.",
                                     "intent_disabled"), dedupe, FALSE)
       ELSE IF _threshold_blocked(response, cfg)
       THEN Stretch(_guardrail_block(c, "Confidence too low to execute safely.",
                                     "intent_threshold"), dedupe, FALSE)
       ELSE IF _confidence_blocked(response, c.options)
       THEN Stretch(_guardrail_block(c, "Confidence too low to execute safely.",
                                     "confidence_gate"), dedupe, FALSE)
       ELSE IF window > 0 /\ _is_recent_duplicate(pruned, token, now_value, window)
       THEN Stretch(_guardrail_block(c1, "Duplicate command suppressed.",
                                     "duplicate_suppressed"), pruned, FALSE)
       ELSE IF missing_signals # <<>>
       THEN Stretch(_guardrail_block(c2, _format_secondary_signal_message(missing_signals),
                                     "missing_secondary_signals"), pruned, FALSE)
       ELSE IF get(cfg, "dangerous", FALSE) /\ "allowed_hours" \in DOMAIN cfg
               /\ ~_within_allowed_hours(cfg["allowed_hours"], hour)
       THEN Stretch(_guardrail_block(c3, "Intent is restricted to allowed hours.",
                                     "dangerous_intent_after_hours"), pruned, FALSE)
       ELSE IF get(cfg, "dangerous", FALSE) /\ ~_has_verification_flags(response)
       THEN Stretch(_guardrail_block(
                        c3, "Additional verification required before executing this intent.",
                        "dangerous_intent_missing_verification"), pruned, FALSE)
       ELSE Stretch(c3, pruned, TRUE)

\* Lines 326-346: what the call does once the executor has ended as result
after_executor(c, response, result) ==
    LET c1 == [c EXCEPT !.executor = result.kind, !.service_calls = result.service_calls]
        window == dedupe_window(c, response)
    IN CASE result.kind = "IntentHandlingError" ->
                Stretch(_executor_failure_result(c1, IntentHandlingMessage(result.text)),
                        dedupe, FALSE)
         [] result.kind = "Exception" ->
                Stretch(_executor_failure_result(
                            c1, "Intent execution failed due to an unexpected error."),
                        dedupe, FALSE)
         [] result.kind = "ok" ->
                Stretch(_executed_result(c1),
                        IF window > 0
                        THEN (_response_token(response) :> c.now_value[1]) @@ dedupe
                        ELSE dedupe,
                        FALSE)

ConcurrentUnchanged ==
    UNCHANGED <<call, intent_executor, wire, service, catalog_cache, telemetry_recorder,
                embedding_service, guardrail_config, model_client, streaming_model>>

\* Coroutine t has returned (or raised) c
task_return(t, c) == tasks' = [tasks EXCEPT ![t] = Task("done", c)]

\* Coroutine t is suspended at the await named by pc
task_await(t, pc, c) == tasks' = [tasks EXCEPT ![t] = Task(pc, c)]

\* Lines 212-227: async_handle up to the await of the adapter call
task_begin(t) ==
    /\ tasks[t].pc = "idle"
    /\ \E options \in ConcurrentOptions :
        /\ _apply_adapter_shared_secret(options)
        /\ \E now \in (IF get(options, OPT_NIGHT_MODE_ENABLED, DEFAULT_NIGHT_MODE_ENABLED)
                       THEN {<<hour>> : hour \in Hours}
                       ELSE {<<>>}) :
            LET c == [NewCall(options) EXCEPT !.night_hour = now]
            IN IF _night_mode_active(options, now)
               THEN task_return(t, _guardrail_block(
                                       c, "Night mode is active. Try again later.",
                                       "night_mode_active"))
               ELSE task_await(t, "interpret", [c EXCEPT !.interpret_calls = @ + 1])
    /\ UNCHANGED <<guardrails, dedupe, clock>>
    /\ ConcurrentUnchanged

\* Lines 227-324: the adapter answers; the gates run and, if none blocks, the
\* executor is called. An executor that raises before it makes its service
\* call ends without suspending the coroutine; otherwise the coroutine is
\* suspended in hass.services.async_call
task_interpreted(t) ==
    /\ tasks[t].pc = "interpret"
    /\ \E post \in AnsweredPosts(ConcurrentResponses),
          provided \in ProvidedSignalSets, hour \in Hours :
        LET c == [tasks[t].c EXCEPT !.adapter = <<post.kind, post.status>>]
            result == AdapterClient_interpret(Utterance, post)
        IN IF result.raised
           THEN /\ task_return(t, [c EXCEPT !.state = "raised", !.exception = result.error])
                /\ UNCHANGED dedupe
           ELSE LET response == result.response
                    stretch == gates([c EXCEPT !.response = <<response>>], response,
                                     clock, provided, hour)
                    called == [stretch.c EXCEPT !.executor_calls = @ + 1]
                IN IF ~stretch.go
                   THEN /\ task_return(t, stretch.c)
                        /\ dedupe' = stretch.map
                   ELSE \E executor \in ExecutorResults(response) :
                            IF executor.service_calls = 0
                            THEN LET end == after_executor(called, response, executor)
                                 IN /\ task_return(t, end.c)
                                    /\ dedupe' = end.map
                            ELSE /\ task_await(t, "executor", called)
                                 /\ dedupe' = stretch.map
    /\ UNCHANGED <<guardrails, last_shared_secret, adapter_shared_secret, clock>>
    /\ ConcurrentUnchanged

\* Lines 324-374: the service call of the executor returns or raises, and the
\* coroutine runs to its end
task_executed(t) ==
    /\ tasks[t].pc = "executor"
    /\ LET c == tasks[t].c
           response == c.response[1]
       IN \E executor \in { r \in ExecutorResults(response) : r.service_calls > 0 } :
            LET end == after_executor(c, response, executor)
            IN /\ task_return(t, end.c)
               /\ dedupe' = end.map
    /\ UNCHANGED <<guardrails, last_shared_secret, adapter_shared_secret, clock>>
    /\ ConcurrentUnchanged

\* A second passes while the coroutines are suspended or idle
ConcurrentTick ==
    /\ clock < MaxTime
    /\ clock' = clock + 1
    /\ UNCHANGED <<guardrails, dedupe, last_shared_secret, adapter_shared_secret, tasks>>
    /\ ConcurrentUnchanged

ConcurrentInit ==
    /\ guardrails \in GuardrailConfigs
    /\ dedupe = <<>>
    /\ last_shared_secret = <<>>
    /\ adapter_shared_secret = ""
    /\ clock = 0
    /\ call = IdleCall
    /\ intent_executor = "async_execute_intent"
    /\ wire = NoRequest
    /\ service = NoService
    /\ catalog_cache = <<>>
    /\ telemetry_recorder = <<>>
    /\ embedding_service = <<>>
    /\ tasks = [t \in TaskIds |-> IdleTask]
    /\ guardrail_config = <<>>
    /\ model_client = <<>>
    /\ streaming_model = <<>>

ConcurrentNext ==
    \/ \E t \in TaskIds : task_begin(t)
    \/ \E t \in TaskIds : task_interpreted(t)
    \/ \E t \in TaskIds : task_executed(t)
    \/ ConcurrentTick

ConcurrentSpec == ConcurrentInit /\ [][ConcurrentNext]_vars

-----------------------------------------------------------------------------
(* The components below are modelled on their own: the conversation handler  *)
(* and the adapter exchange stay as constructed                              *)

handler == <<guardrails, dedupe, last_shared_secret, adapter_shared_secret, clock, call,
             intent_executor, wire, service>>

HandlerIdle ==
    /\ guardrails = GuardrailBundle(<<>>, {}, {}, <<>>, <<>>)
    /\ dedupe = <<>>
    /\ last_shared_secret = <<>>
    /\ adapter_shared_secret = ""
    /\ clock = 0
    /\ call = IdleCall
    /\ intent_executor = "async_execute_intent"
    /\ wire = NoRequest
    /\ service = NoService

-----------------------------------------------------------------------------
(* CatalogSliceCache (adapter_service/main.py lines 338-359)                 *)
(*                                                                           *)
(* self._data is an OrderedDict: a sequence of entries, least recently used  *)
(* first. A slice is named by the number of the builder call that made it,   *)
(* so that a stored slice and a rebuilt one differ.                          *)

MaxBuilds == 4

\* CATALOG_CACHE_SIZE as _parse_int leaves it: a positive integer
CacheSizes == {1, 2}

\* Normalized utterances and catalog fingerprints
CacheKeys == {"turn on the lights", "dim the lights"}
Fingerprints == {"3f2a", "9c41"}

CacheEntry(key, fingerprint, value) == [key |-> key, fingerprint |-> fingerprint, value |-> value]

\* The sequence s without its element at index i
Without(s, i) == SubSeq(s, 1, i - 1) \o SubSeq(s, i + 1, Len(s))

\* The eviction popping the most recently used entries, popitem(last=True)
Evict_newest(data, max_size) ==
    IF Len(data) > max_size THEN SubSeq(data, 1, max_size) ELSE data

\* while len(self._data) > self._max_size: self._data.popitem(last=False)
RECURSIVE Evict(_, _)
Evict(data, max_size) ==
    IF Len(data) > max_size THEN Evict(Tail(data), max_size) ELSE data

\* The indexes of the entries stored under cache_key = (key, fingerprint)
Stored(data, key, fingerprint) ==
    { i \in 1..Len(data) : data[i].key = key /\ data[i].fingerprint = fingerprint }

\* The indexes of the entries a cache keyed by the utterance alone would find
Stored_key_only(data, key, fingerprint) ==
    { i \in 1..Len(data) : data[i].key = key }

\* The outcome of a get call: the slice returned and whether builder ran
GetResult(key, fingerprint, value, built) ==
    [key |-> key, fingerprint |-> fingerprint, value |-> value, built |-> built]

\* CatalogSliceCache.get finding its entry by the utterance alone
CatalogSliceCache_get_key_only(key, fingerprint) ==
    LET data == catalog_cache.data
        found == Stored_key_only(data, key, fingerprint)
    IN IF found # {}
       THEN LET i == CHOOSE i \in found : TRUE
            IN catalog_cache' =
                 [catalog_cache EXCEPT
                    !.data = Append(Without(data, i), data[i]),
                    !.last = <<GetResult(key, fingerprint, data[i].value, FALSE)>>]
       ELSE /\ catalog_cache.builds < MaxBuilds
            /\ LET value == catalog_cache.builds + 1
               IN catalog_cache' =
                    [catalog_cache EXCEPT
                       !.builds = value,
                       !.data = Evict(Append(data, CacheEntry(key, fingerprint, value)),
                                      catalog_cache.max_size),
                       !.last = <<GetResult(key, fingerprint, value, TRUE)>>]

\* CatalogSliceCache.get(key, fingerprint, builder): a hit moves the entry to
\* the end and returns its slice; a miss calls builder, stores the slice and
\* evicts from the front
CatalogSliceCache_get(key, fingerprint) ==
    LET data == catalog_cache.data
        found == Stored(data, key, fingerprint)
    IN IF found # {}
       THEN LET i == CHOOSE i \in found : TRUE
            IN catalog_cache' =
                 [catalog_cache EXCEPT
                    !.data = Append(Without(data, i), data[i]),
                    !.last = <<GetResult(key, fingerprint, data[i].value, FALSE)>>]
       ELSE /\ catalog_cache.builds < MaxBuilds
            /\ LET value == catalog_cache.builds + 1
               IN catalog_cache' =
                    [catalog_cache EXCEPT
                       !.builds = value,
                       !.data = Evict(Append(data, CacheEntry(key, fingerprint, value)),
                                      catalog_cache.max_size),
                       !.last = <<GetResult(key, fingerprint, value, TRUE)>>]

CacheUnchanged ==
    UNCHANGED <<handler, telemetry_recorder, embedding_service, tasks, guardrail_config,
                model_client, streaming_model>>

cache_get ==
    /\ \E key \in CacheKeys, fingerprint \in Fingerprints :
          CatalogSliceCache_get(key, fingerprint)
    /\ CacheUnchanged

\* CatalogSliceCache.clear
cache_clear ==
    /\ catalog_cache.data # <<>>
    /\ catalog_cache' = [catalog_cache EXCEPT !.data = <<>>, !.last = <<>>]
    /\ CacheUnchanged

CacheInit ==
    /\ HandlerIdle
    /\ catalog_cache \in { [max_size |-> max_size, data |-> <<>>, builds |-> 0, last |-> <<>>] :
                              max_size \in CacheSizes }
    /\ telemetry_recorder = <<>>
    /\ embedding_service = <<>>
    /\ tasks = <<>>
    /\ guardrail_config = <<>>
    /\ model_client = <<>>
    /\ streaming_model = <<>>

CacheNext ==
    \/ cache_get
    \/ cache_clear

CacheSpec == CacheInit /\ [][CacheNext]_vars

-----------------------------------------------------------------------------
(* TelemetryRecorder (custom_components/entangledhome/telemetry.py)          *)
(*                                                                           *)
(* An event carries the number of the record_event call that made it, in     *)
(* place of its timestamp.                                                   *)

MaxRecorded == 5

\* The max_events a recorder may be constructed with
MaxEventsChoices == {-1, 0, 1, 2, 3}

TelemetryOutcomes == {"executed", "blocked", "failed"}

TelemetryEvent(number, outcome) == [number |-> number, outcome |-> outcome]

\* max(a, b) on integers
Max(a, b) == IF b > a THEN b ELSE a

\* deque.append refusing the new event once the deque is full
deque_append_keep_oldest(events, maxlen, event) ==
    IF Len(events) = maxlen THEN events ELSE Append(events, event)

\* deque.append on a deque(maxlen=maxlen): a full deque drops its leftmost item
deque_append(events, maxlen, event) ==
    IF Len(events) = maxlen THEN Append(Tail(events), event) ELSE Append(events, event)

\* TelemetryRecorder(max_events=max_events)
TelemetryRecorder(max_events) ==
    [max_events |-> max_events,
     maxlen |-> Max(1, max_events),
     events |-> <<>>,
     calls |-> 0,               \* record_event calls so far
     last |-> "none"]           \* how the last record_event call ended

\* iter(tuple(self._events)): the events from the left end to the right
iter_recent(recorder) == recorder.events

TelemetryUnchanged ==
    UNCHANGED <<handler, catalog_cache, embedding_service, tasks, guardrail_config,
                model_client, streaming_model>>

\* record_event: a response that is not an InterpretResponse is validated
\* first, and one that fails makes the call raise before anything is stored
record_event ==
    /\ telemetry_recorder.calls < MaxRecorded
    /\ \E outcome \in TelemetryOutcomes, valid \in BOOLEAN :
        LET number == telemetry_recorder.calls + 1
        IN telemetry_recorder' =
             IF valid
             THEN [telemetry_recorder EXCEPT
                     !.calls = number,
                     !.events = deque_append(@, telemetry_recorder.maxlen,
                                             TelemetryEvent(number, outcome)),
                     !.last = "recorded"]
             ELSE [telemetry_recorder EXCEPT !.calls = number, !.last = "ValidationError"]
    /\ TelemetryUnchanged

TelemetryInit ==
    /\ HandlerIdle
    /\ catalog_cache = <<>>
    /\ telemetry_recorder \in { TelemetryRecorder(max_events) : max_events \in MaxEventsChoices }
    /\ embedding_service = <<>>
    /\ tasks = <<>>
    /\ guardrail_config = <<>>
    /\ model_client = <<>>
    /\ streaming_model = <<>>

TelemetryNext == record_event

TelemetrySpec == TelemetryInit /\ [][TelemetryNext]_vars

-----------------------------------------------------------------------------
(* GuardrailBundle.from_mapping (conversation.py lines 62-165)               *)
(*                                                                           *)
(* A str is held as the list str.split(",") makes of it: each segment has a  *)
(* core without surrounding whitespace and may be padded with blanks.        *)

OPT_INTENT_THRESHOLDS == "intent_thresholds"
OPT_DISABLED_INTENTS == "disabled_intents"
OPT_DANGEROUS_INTENTS == "dangerous_intents"
OPT_ALLOWED_HOURS == "intent_allowed_hours"
OPT_RECENT_COMMAND_WINDOW_OVERRIDES == "intent_recent_command_windows"

Segment(padded, core) == [padded |-> padded, core |-> core]

CfgNone == [type |-> "none"]
CfgNumber(value) == [type |-> "number", value |-> value]
CfgStr(segments) == [type |-> "str", segments |-> segments]
CfgList(items) == [type |-> "list", items |-> items]
CfgDict(entries) == [type |-> "dict", entries |-> entries]

\* A str without commas or surrounding blanks
Word(text) == CfgStr(<<Segment(FALSE, text)>>)

\* The numerals in use and the numbers float() and int() read from them:
\* thresholds in hundredths, windows in seconds, hours
FloatNumerals == ("0.9" :> 90) @@ ("3" :> 3) @@ ("-1" :> -1) @@ ("22" :> 22) @@ ("6" :> 6)
IntNumerals == ("3" :> 3) @@ ("-1" :> -1) @@ ("22" :> 22) @@ ("6" :> 6)

\* float(value) inside try/except (TypeError, ValueError): <<>> when it raises
try_float(value) ==
    IF value.type = "number" THEN <<value.value>>
    ELSE IF value.type = "str" /\ Len(value.segments) = 1
            /\ value.segments[1].core \in DOMAIN FloatNumerals
    THEN <<FloatNumerals[value.segments[1].core]>>
    ELSE <<>>

\* int(value) inside try/except (TypeError, ValueError): <<>> when it raises
try_int(value) ==
    IF value.type = "number" THEN <<value.value>>
    ELSE IF value.type = "str" /\ Len(value.segments) = 1
            /\ value.segments[1].core \in DOMAIN IntNumerals
    THEN <<IntNumerals[value.segments[1].core]>>
    ELSE <<>>

\* str(item).strip() of a list item
str_strip(item) ==
    IF item.type = "str" /\ Len(item.segments) = 1 THEN item.segments[1].core
    ELSE IF item.type = "none" THEN "None"
    ELSE "?"

_coerce_str_set(value) ==
    IF value.type = "str"
    THEN { value.segments[i].core : i \in { j \in 1..Len(value.segments) :
                                             value.segments[j].core # "" } }
    ELSE IF value.type = "list"
    THEN { str_strip(value.items[i]) : i \in { j \in 1..Len(value.items) :
                                                str_strip(value.items[j]) # "" } }
    ELSE {}

\* <<>> is None
_coerce_hours(value) ==
    LET pair == IF value.type = "dict"
                THEN <<get(value.entries, "start", CfgNone), get(value.entries, "end", CfgNone)>>
                ELSE IF value.type = "list" /\ Len(value.items) = 2
                THEN value.items
                ELSE <<>>
    IN IF pair = <<>> THEN <<>>
       ELSE LET start_hour == try_int(pair[1])
                end_hour == try_int(pair[2])
            IN IF start_hour = <<>> \/ end_hour = <<>> THEN <<>>
               ELSE IF start_hour[1] \notin 0..23 \/ end_hour[1] \notin 0..23 THEN <<>>
               ELSE <<<<start_hour[1], end_hour[1]>>>>

\* The dict a loop 'for intent, value in raw.items()' fills with convert(value)
\* where that is not <<>>; empty when raw is not a Mapping
Collected(raw, convert(_)) ==
    IF raw.type # "dict" THEN <<>>
    ELSE [intent \in { k \in DOMAIN raw.entries : convert(raw.entries[k]) # <<>> }
            |-> convert(raw.entries[intent])[1]]

\* Lines 93-98: float(value), kept when it is not negative
try_window(value) ==
    LET window == try_float(value)
    IN IF window # <<>> /\ window[1] >= 0 THEN window ELSE <<>>

\* GuardrailBundle.from_mapping(data) for a mapping
from_mapping(mapping) ==
    GuardrailBundle(
        Collected(get(mapping, OPT_INTENT_THRESHOLDS, CfgDict(<<>>)), try_float),
        _coerce_str_set(get(mapping, OPT_DISABLED_INTENTS, CfgList(<<>>))),
        _coerce_str_set(get(mapping, OPT_DANGEROUS_INTENTS, CfgList(<<>>))),
        Collected(get(mapping, OPT_ALLOWED_HOURS, CfgDict(<<>>)), _coerce_hours),
        Collected(get(mapping, OPT_RECENT_COMMAND_WINDOW_OVERRIDES, CfgDict(<<>>)), try_window))

\* json.dumps of a list of names: '["noop", "media_pause"]'
json_dumps_list(names) ==
    IF names = <<>> THEN CfgStr(<<Segment(FALSE, "[]")>>)
    ELSE CfgStr([i \in 1..Len(names) |->
                   Segment(i > 1,
                           (IF i = 1 THEN "[" ELSE "") \o "\"" \o names[i] \o "\""
                               \o (IF i = Len(names) THEN "]" ELSE ""))])

\* ", ".join(names): 'noop, media_pause'
comma_join(names) ==
    IF names = <<>> THEN CfgStr(<<Segment(FALSE, "")>>)
    ELSE CfgStr([i \in 1..Len(names) |-> Segment(i > 1, names[i])])

\* json.dumps of a dict: a str. from_mapping never reads the text of a str
\* given for a mapping field, so the text is held as one segment
json_dumps_dict(entries) == CfgStr(<<Segment(FALSE, "{}")>>)

\* The fields of a configuration as typed values: names as lists of str,
\* the rest as dicts, with entries that are not valid among them
TypedThresholds ==
    { CfgDict(("scene_activate" :> Word("0.9")) @@ ("media_play" :> CfgNumber(80))),
      CfgDict(("scene_activate" :> Word("high")) @@ ("media_play" :> CfgNumber(80))),
      CfgDict("noop" :> CfgNone) }

TypedNames == { <<"noop", "media_pause">>, <<"unlock_door">>, <<>> }

TypedHours ==
    { CfgDict("scene_activate" :> CfgDict(("start" :> CfgNumber(22)) @@ ("end" :> CfgNumber(6)))),
      CfgDict(("scene_activate" :> CfgList(<<CfgNumber(22), CfgNumber(6)>>))
              @@ ("unlock_door" :> CfgList(<<CfgNumber(24), CfgNumber(6)>>))),
      CfgDict("unlock_door" :> Word("22")) }

TypedWindows ==
    { CfgDict("scene_activate" :> Word("3")),
      CfgDict(("scene_activate" :> CfgNumber(-1)) @@ ("media_play" :> CfgNumber(0))),
      CfgDict("noop" :> Word("-1")) }

Forms == {"native", "json", "comma-separated"}

\* The mapping handed to from_mapping: every field in the given form. Only
\* the two sets of names have a comma-separated form
Encoded(thresholds, disabled, dangerous, hours, windows, form) ==
    LET names(list) ==
            CASE form = "json" -> json_dumps_list(list)
              [] form = "comma-separated" -> comma_join(list)
              [] OTHER -> CfgList([i \in 1..Len(list) |-> Word(list[i])])
        dict(d) == IF form = "json" THEN json_dumps_dict(d.entries) ELSE d
    IN (OPT_INTENT_THRESHOLDS :> dict(thresholds))
       @@ (OPT_DISABLED_INTENTS :> names(disabled))
       @@ (OPT_DANGEROUS_INTENTS :> names(dangerous))
       @@ (OPT_ALLOWED_HOURS :> dict(hours))
       @@ (OPT_RECENT_COMMAND_WINDOW_OVERRIDES :> dict(windows))

ParseUnchanged ==
    UNCHANGED <<dedupe, last_shared_secret, adapter_shared_secret, clock, call, intent_executor,
                wire, service, catalog_cache, telemetry_recorder, embedding_service, tasks,
                model_client, streaming_model>>

\* set_guardrail_config(guardrail_config) with a mapping in one of the forms
set_guardrail_config_mapping ==
    /\ \E thresholds \in TypedThresholds, disabled \in TypedNames, dangerous \in TypedNames,
          hours \in TypedHours, windows \in TypedWindows, form \in Forms :
        /\ guardrail_config' =
              [form |-> form,
               typed |-> Encoded(thresholds, disabled, dangerous, hours, windows, "native"),
               mapping |-> Encoded(thresholds, disabled, dangerous, hours, windows, form)]
        /\ guardrails' = from_mapping(guardrail_config'.mapping)
    /\ ParseUnchanged

ParseInit ==
    /\ HandlerIdle
    /\ catalog_cache = <<>>
    /\ telemetry_recorder = <<>>
    /\ embedding_service = <<>>
    /\ tasks = <<>>
    /\ guardrail_config = <<>>
    /\ model_client = <<>>
    /\ streaming_model = <<>>

ParseNext == set_guardrail_config_mapping

ParseSpec == ParseInit /\ [][ParseNext]_vars

-----------------------------------------------------------------------------
(* EmbeddingService (custom_components/entangledhome/embeddings.py)          *)
(*                                                                           *)
(* Embed calls overlap on one event loop. self._cache is an OrderedDict: a   *)
(* sequence of entries, least recently used first. A vector is named by its  *)
(* text and by the number of the backend call that generated it.             *)

MaxGenerate == 3

EmbedTasks == {"planner", "indexer"}

\* cache_size as given to the constructor
EmbedCacheSizes == {-1, 1, 2}

Texts == {"alpha", "beta", "gamma"}

\* The texts of one embed call: none, one, or two that may be equal
TextLists == {<<>>} \cup { <<t>> : t \in Texts } \cup { <<t, u>> : t \in Texts, u \in Texts }

Vector(text, generation) == [text |-> text, generation |-> generation]

\* No embed call in progress
NoEmbed == [pc |-> "idle"]

\* The index of text in the cache, 0 if it is not cached
CacheIndex(cache, text) ==
    IF \E i \in 1..Len(cache) : cache[i].text = text
    THEN CHOOSE i \in 1..Len(cache) : cache[i].text = text
    ELSE 0

\* Lines 109-116: the loop over texts from index on. A hit moves the entry to
\* the end of the cache and fills results[index]; a miss joins pending
RECURSIVE Scan(_, _, _, _, _, _)
Scan(cache, texts, index, results, pending, pending_indexes) ==
    IF index > Len(texts)
    THEN [cache |-> cache, results |-> results, pending |-> pending,
          pending_indexes |-> pending_indexes]
    ELSE LET found == CacheIndex(cache, texts[index])
         IN IF found # 0
            THEN Scan(Append(Without(cache, found), cache[found]), texts, index + 1,
                      [results EXCEPT ![index] = <<cache[found].vector>>],
                      pending, pending_indexes)
            ELSE Scan(cache, texts, index + 1, results,
                      Append(pending, texts[index]), Append(pending_indexes, index))

\* Lines 134-140: _enforce_cache_limit
_enforce_cache_limit(cache, cache_size) ==
    IF cache_size = 0 THEN <<>> ELSE Evict(cache, cache_size)

\* self._cache[text] = normalized; self._cache.move_to_end(text)
CachePut(cache, text, vector) ==
    LET found == CacheIndex(cache, text)
        rest == IF found # 0 THEN Without(cache, found) ELSE cache
    IN Append(rest, [text |-> text, vector |-> vector])

\* Lines 123-129: the loop over zip(pending, fresh_vectors, pending_indexes)
\* from position k on
RECURSIVE Store(_, _, _, _, _, _, _)
Store(cache, cache_size, results, pending, fresh_vectors, pending_indexes, k) ==
    IF k > Len(pending)
    THEN [cache |-> cache, results |-> results]
    ELSE Store(IF cache_size # 0
               THEN _enforce_cache_limit(CachePut(cache, pending[k], fresh_vectors[k]),
                                         cache_size)
               ELSE cache,
               cache_size,
               [results EXCEPT ![pending_indexes[k]] = <<fresh_vectors[k]>>],
               pending, fresh_vectors, pending_indexes, k + 1)

\* The vector [], which no text has
EmptyVector == [text |-> "", generation |-> 0]

\* Line 132: vector if vector is not None else []
Returned_vectors(results) ==
    [i \in 1..Len(results) |-> IF results[i] = <<>> THEN EmptyVector ELSE results[i][1]]

EmbedUnchanged ==
    UNCHANGED <<handler, catalog_cache, telemetry_recorder, tasks, guardrail_config,
                model_client, streaming_model>>

\* embed running on whether or not the lock is held
CanAcquire_always == TRUE

\* Line 98: asyncio.Lock.acquire takes the lock at once while it is neither
\* held nor waited for
CanAcquire == embedding_service.lock = <<>> /\ embedding_service.waiters = <<>>

\* Lines 101-119 under the lock, in a service in state s: the scan, and the
\* backend call issued for the texts that missed. A call with nothing pending
\* returns and releases the lock. waited tells whether the call had to wait
\* for the lock
_embed_locked(s, t, texts, waited) ==
    LET scan == Scan(s.cache, texts, 1, [i \in 1..Len(texts) |-> <<>>], <<>>, <<>>)
    IN IF scan.pending = <<>>
       THEN embedding_service' =
              [s EXCEPT
                 !.cache = scan.cache,
                 !.calls[t] = [pc |-> "done", texts |-> texts, waited |-> waited,
                               error |-> "", returned |-> Returned_vectors(scan.results)]]
       ELSE /\ s.generated < MaxGenerate
            /\ embedding_service' =
                 [s EXCEPT
                    !.cache = scan.cache,
                    !.lock = <<t>>,
                    !.generated = @ + 1,
                    !.calls[t] = [pc |-> "generate", texts |-> texts, waited |-> waited,
                                  results |-> scan.results, pending |-> scan.pending,
                                  pending_indexes |-> scan.pending_indexes,
                                  generation |-> s.generated + 1]]

\* Lines 95-99: embed(texts) is called; it runs on if it gets the lock at
\* once and otherwise joins the lock's waiters
embed(t) ==
    /\ embedding_service.calls[t].pc = "idle"
    /\ \E texts \in TextLists :
          IF CanAcquire
          THEN _embed_locked(embedding_service, t, texts, FALSE)
          ELSE embedding_service' =
                 [embedding_service EXCEPT
                    !.waiters = Append(@, t),
                    !.calls[t] = [pc |-> "waiting", texts |-> texts]]
    /\ EmbedUnchanged

\* The lock has been released and its first waiter runs on
embed_resume(t) ==
    /\ embedding_service.calls[t].pc = "waiting"
    /\ embedding_service.lock = <<>>
    /\ Head(embedding_service.waiters) = t
    /\ _embed_locked([embedding_service EXCEPT !.waiters = Tail(@)], t,
                     embedding_service.calls[t].texts, TRUE)
    /\ EmbedUnchanged

\* Lines 119-132: the backend answers with one vector per pending text, with
\* a vector short, or by raising; the call stores, returns or raises, and the
\* lock is released on the way out
backend_generate(t) ==
    /\ embedding_service.calls[t].pc = "generate"
    /\ LET c == embedding_service.calls[t]
       IN \E answer \in {"vectors", "mismatch", "raise"} :
            IF answer = "vectors"
            THEN LET fresh_vectors == [k \in 1..Len(c.pending) |->
                                         Vector(c.pending[k], c.generation)]
                     stored == Store(embedding_service.cache, embedding_service.cache_size,
                                     c.results, c.pending, fresh_vectors,
                                     c.pending_indexes, 1)
                 IN embedding_service' =
                      [embedding_service EXCEPT
                         !.cache = stored.cache,
                         !.lock = IF @ = <<t>> THEN <<>> ELSE @,
                         !.calls[t] = [pc |-> "done", texts |-> c.texts, waited |-> c.waited,
                                       error |-> "",
                                       returned |-> Returned_vectors(stored.results)]]
            ELSE embedding_service' =
                   [embedding_service EXCEPT
                      !.lock = IF @ = <<t>> THEN <<>> ELSE @,
                      !.calls[t] = [pc |-> "done", texts |-> c.texts, waited |-> c.waited,
                                    error |-> IF answer = "mismatch"
                                              THEN "EmbeddingServiceError"
                                              ELSE "backend error",
                                    returned |-> <<>>]]
    /\ EmbedUnchanged

\* The caller takes the vectors (or the exception) of a finished call
embed_return(t) ==
    /\ embedding_service.calls[t].pc = "done"
    /\ embedding_service' = [embedding_service EXCEPT !.calls[t] = NoEmbed]
    /\ EmbedUnchanged

\* EmbeddingService(cache_size=cache_size)
EmbeddingService(cache_size) ==
    [cache_size |-> Max(cache_size, 0),
     cache |-> <<>>,
     lock |-> <<>>,              \* the task holding self._lock, <<>> when free
     waiters |-> <<>>,           \* the tasks waiting for self._lock, first come first
     generated |-> 0,            \* calls of self._backend.generate so far
     calls |-> [t \in EmbedTasks |-> NoEmbed]]

EmbedInit ==
    /\ HandlerIdle
    /\ catalog_cache = <<>>
    /\ telemetry_recorder = <<>>
    /\ embedding_service \in { EmbeddingService(cache_size) : cache_size \in EmbedCacheSizes }
    /\ tasks = <<>>
    /\ guardrail_config = <<>>
    /\ model_client = <<>>
    /\ streaming_model = <<>>

EmbedNext ==
    \/ \E t \in EmbedTasks : embed(t)
    \/ \E t \in EmbedTasks : embed_resume(t)
    \/ \E t \in EmbedTasks : backend_generate(t)
    \/ \E t \in EmbedTasks : embed_return(t)

EmbedSpec == EmbedInit /\ [][EmbedNext]_vars

-----------------------------------------------------------------------------
(* The shared secret option over consecutive async_handle calls: the option  *)
(* is absent, empty or one of two secrets, night mode is on or off, and the  *)
(* adapter client may have been built with a secret of its own               *)

SecretOptions ==
    { night @@ secret :
        night \in { <<>>,
                    [night_mode_enabled |-> TRUE,
                     night_mode_start_hour |-> 23,
                     night_mode_end_hour |-> 6] },
        secret \in { <<>> } \cup { [adapter_shared_secret |-> value] :
                                     value \in {"", "alpha", "beta"} } }

SecretResponses == { response \in Responses : response.intent = "turn_on" }

secret_async_handle == Handle(SecretOptions, AnsweredPosts(SecretResponses))

SecretInit ==
    /\ guardrails \in GuardrailConfigs
    /\ dedupe = <<>>
    /\ last_shared_secret = <<>>
    /\ adapter_shared_secret \in {"", "alpha"}
    /\ clock = 0
    /\ call = IdleCall
    /\ intent_executor = "injected"
    /\ wire = NoRequest
    /\ service = NoService
    /\ ComponentsIdle

SecretNext ==
    \/ secret_async_handle
    \/ Return

SecretSpec == SecretInit /\ [][SecretNext]_vars

-----------------------------------------------------------------------------
(* ModelClient.stream over the chunks of the upstream text                  *)
(* (adapter_service/model.py, lines 39-54 and 100-161)                       *)

\* Upstream text is a sequence of characters; the members of a JSON object
\* are held as one character, so that a chunk may end anywhere else
MaxLines == 2
MaxCuts == 2

NEWLINE == "\n"
Whitespace == {" "}

DATA_PREFIX == <<"d", "a", "t", "a", ":">>
DONE == <<"[", "D", "O", "N", "E", "]">>

MEMBERS_LOW == "\"intent\":\"turn_on\",\"confidence\":0.5"
MEMBERS_HIGH == "\"intent\":\"turn_on\",\"confidence\":0.9"
MEMBERS_NO_INTENT == "\"confidence\":0.9"

JsonObject(members) == <<"{", members, "}">>

\* json.loads: the value of a JSON text, or <<>> for JSONDecodeError
json_loads(candidate) ==
    IF candidate = JsonObject(MEMBERS_LOW) THEN <<Object("turn_on", Number(50))>>
    ELSE IF candidate = JsonObject(MEMBERS_HIGH) THEN <<Object("turn_on", Number(90))>>
    ELSE IF candidate = JsonObject(MEMBERS_NO_INTENT) THEN <<Object("", Number(90))>>
    ELSE IF candidate = <<"{", "}">> THEN <<Object("", Missing)>>
    ELSE IF candidate = <<"5">> THEN <<Scalar>>
    ELSE <<>>

\* str.strip
strip(text) ==
    LET kept == {i \in 1..Len(text) : text[i] \notin Whitespace}
    IN IF kept = {} THEN <<>>
       ELSE SubSeq(text, CHOOSE i \in kept : \A j \in kept : i <= j,
                         CHOOSE i \in kept : \A j \in kept : i >= j)

\* str.startswith
startswith(text, prefix) ==
    Len(text) >= Len(prefix) /\ SubSeq(text, 1, Len(prefix)) = prefix

\* str.split(sep): the pieces between the separators, at least one
RECURSIVE str_split(_, _)
str_split(text, sep) ==
    LET found == {i \in 1..Len(text) : text[i] = sep}
    IN IF found = {} THEN <<text>>
       ELSE LET first == CHOOSE i \in found : \A j \in found : i <= j
            IN <<SubSeq(text, 1, first - 1)>>
               \o str_split(SubSeq(text, first + 1, Len(text)), sep)

\* _parse_json, one attempt: json.loads, else the outermost braces
Trimmed(candidate) ==
    LET opening == {i \in 1..Len(candidate) : candidate[i] = "{"}
        closing == {i \in 1..Len(candidate) : candidate[i] = "}"}
    IN IF opening = {} \/ closing = {} THEN <<>>
       ELSE LET start == CHOOSE i \in opening : \A j \in opening : i <= j
                end == CHOOSE i \in closing : \A j \in closing : i >= j
            IN IF end <= start THEN <<>> ELSE <<SubSeq(candidate, start, end)>>

\* _parse_json: the parsed value, or <<>> for None
_parse_json(data) ==
    LET candidate == strip(data)
    IN IF candidate = <<>> THEN <<>>
       ELSE IF json_loads(candidate) # <<>> THEN json_loads(candidate)
       ELSE IF Trimmed(candidate) = <<>> THEN <<>>
       ELSE json_loads(Trimmed(candidate)[1])

\* _collect, lines 108-121: what one complete line of the buffer gives
_collect_line(raw_line) ==
    LET stripped == strip(raw_line)
        line == IF startswith(stripped, DATA_PREFIX)
                THEN strip(SubSeq(stripped, Len(DATA_PREFIX) + 1, Len(stripped)))
                ELSE stripped
    IN IF stripped = <<>> THEN Skipped
       ELSE IF line = <<>> \/ line = DONE THEN Skipped
       ELSE IF _parse_json(line) = <<>> THEN Skipped
       ELSE _collect(_parse_json(line)[1])

\* _collect, lines 105-107, parsing each chunk on its own
_collect_chunk_no_buffer(buffer, chunk) ==
    LET lines == str_split(chunk, NEWLINE)
    IN [lines |-> SubSeq(lines, 1, Len(lines) - 1), buffer |-> <<>>]

\* _collect, lines 105-107: the chunk joins the buffer, the complete lines
\* leave it and the text after the last newline stays
_collect_chunk(buffer, chunk) ==
    LET lines == str_split(buffer \o chunk, NEWLINE)
    IN [lines |-> SubSeq(lines, 1, Len(lines) - 1), buffer |-> lines[Len(lines)]]

\* _collect when the upstream closes, parsing what the buffer still holds
_collect_end_flush(buffer) == IF buffer = <<>> THEN <<>> ELSE <<buffer>>

\* _collect when the upstream closes: the loop ends, line 121 is the last
\* statement, and nothing more is parsed
_collect_end(buffer) == <<>>

\* A stream call: the chunks the upstream will deliver, those read so far,
\* the buffer, the number of complete lines taken from it, the responses
\* yielded and the line each one came from
ModelClientCall(chunks, threshold) ==
    [state |-> "open", chunks |-> chunks, threshold |-> threshold, position |-> 0,
     buffer |-> <<>>, lines |-> 0, yielded |-> <<>>, origins |-> <<>>, error |-> ""]

\* One line through _collect and stream: a response is yielded, and stream
\* breaks when its confidence reaches the threshold (lines 51-54)
collect(s, raw_line) ==
    LET outcome == _collect_line(raw_line)
        read == [s EXCEPT !.lines = @ + 1]
    IN CASE outcome.kind = "skipped" -> read
         [] outcome.kind = "raised" -> [read EXCEPT !.state = "raised", !.error = outcome.error]
         [] OTHER ->
              LET response == outcome.response[1]
              IN [read EXCEPT !.yielded = Append(@, response),
                              !.origins = Append(@, read.lines),
                              !.state = IF ModelClient_stream_break(response, s.threshold)
                                        THEN "stopped" ELSE "open"]

\* The for loop over the complete lines, left by a break or an exception
RECURSIVE collect_lines(_, _)
collect_lines(s, lines) ==
    IF lines = <<>> \/ s.state # "open" THEN s
    ELSE collect_lines(collect(s, Head(lines)), Tail(lines))

\* The next chunk arrives
next_chunk(s) ==
    LET chunk == s.chunks[s.position + 1]
        split == _collect_chunk(s.buffer, chunk)
    IN collect_lines([s EXCEPT !.position = @ + 1, !.buffer = split.buffer], split.lines)

\* The upstream closes
end_of_stream(s) ==
    LET ended == collect_lines(s, _collect_end(s.buffer))
    IN IF ended.state = "open" THEN [ended EXCEPT !.state = "closed"] ELSE ended

\* The whole call
RECURSIVE ModelClient_run(_)
ModelClient_run(s) ==
    IF s.state # "open" THEN s
    ELSE IF s.position = Len(s.chunks) THEN end_of_stream(s)
    ELSE ModelClient_run(next_chunk(s))

ChunksUnchanged ==
    UNCHANGED <<handler, catalog_cache, telemetry_recorder, embedding_service, tasks,
                guardrail_config, streaming_model>>

\* async for chunk in self._request(payload): one more chunk
request_chunk ==
    /\ model_client.state = "open"
    /\ model_client.position < Len(model_client.chunks)
    /\ model_client' = next_chunk(model_client)
    /\ ChunksUnchanged

\* async for chunk in self._request(payload): the upstream has closed
request_closed ==
    /\ model_client.state = "open"
    /\ model_client.position = Len(model_client.chunks)
    /\ model_client' = end_of_stream(model_client)
    /\ ChunksUnchanged

\* The lines the upstream may send
StreamLines ==
    { DATA_PREFIX \o <<" ">> \o JsonObject(MEMBERS_LOW),
      JsonObject(MEMBERS_HIGH),
      DATA_PREFIX \o <<" ">> \o DONE,
      <<" ">>,
      <<"o", "k", "{", MEMBERS_LOW, "}", "!">>,
      JsonObject(MEMBERS_NO_INTENT),
      <<"5">> }

\* What follows the last newline
Tails == { <<>>, JsonObject(MEMBERS_HIGH), <<"{", MEMBERS_LOW>> }

RECURSIVE Terminated(_)
Terminated(lines) ==
    IF lines = <<>> THEN <<>>
    ELSE Head(lines) \o <<NEWLINE>> \o Terminated(Tail(lines))

UpstreamTexts ==
    { Terminated(lines) \o tail :
        lines \in UNION { [1..n -> StreamLines] : n \in 0..MaxLines }, tail \in Tails }

\* The text cut after the given positions
RECURSIVE Cut(_, _, _)
Cut(text, from, cuts) ==
    IF cuts = <<>> THEN <<SubSeq(text, from + 1, Len(text))>>
    ELSE <<SubSeq(text, from + 1, Head(cuts))>> \o Cut(text, Head(cuts), Tail(cuts))

Chunkings(text) ==
    { <<>> : n \in (IF text = <<>> THEN {0} ELSE {}) }
    \cup { Cut(text, 0, cuts) :
             cuts \in { c \in UNION { [1..n -> 0..Len(text)] : n \in 0..MaxCuts } :
                          \A i \in 1..(Len(c) - 1) : c[i] <= c[i + 1] } }

ChunksInit ==
    /\ HandlerIdle
    /\ catalog_cache = <<>>
    /\ telemetry_recorder = <<>>
    /\ embedding_service = <<>>
    /\ tasks = <<>>
    /\ guardrail_config = <<>>
    /\ streaming_model = <<>>
    /\ \E text \in UpstreamTexts : \E chunks \in Chunkings(text) :
          model_client = ModelClientCall(chunks, 80)

ChunksNext ==
    \/ request_chunk
    \/ request_closed

ChunksSpec == ChunksInit /\ [][ChunksNext]_vars

-----------------------------------------------------------------------------
(* StreamingModel.stream: candidates, validation and repair                 *)
(* (adapter_service/main.py, lines 483-579)                                  *)

MaxCandidates == 2

\* An InterpretResponse instance, as ModelClient.stream yields them
Instance(intent, confidence) ==
    [kind |-> "instance", intent |-> intent, confidence |-> Number(confidence)]

\* What self._model.stream may yield (the model client can be injected) and
\* what self._model.repair may return: an instance, a mapping that is valid,
\* one that breaks the JSON schema, one that only the Pydantic model
\* rejects (NaN passes "minimum" and "maximum"), or something else
Candidates ==
    { Instance("turn_on", 70),
      Object("turn_on", Number(50)),
      Object("turn_on", Number(140)),
      Object("", Number(90)),
      Object("turn_on", NaNLiteral),
      Scalar }

\* self._validator.validate(data): intent and confidence are required, the
\* confidence is a number between 0 and 1
validator_validate(data) ==
    /\ data.intent # ""
    /\ data.confidence.type \in {"number", "nan"}
    /\ data.confidence.type = "number"
          => data.confidence.value >= 0 /\ data.confidence.value <= 100

\* InterpretResponse.model_validate(data)
model_validate(data) ==
    /\ data.intent # ""
    /\ data.confidence.type = "number"
    /\ data.confidence.value >= 0
    /\ data.confidence.value <= 100

Coerced(response) == [kind |-> "response", response |-> <<response>>]
NeedsRepair == [kind |-> "repair", response |-> <<>>]
NotCoerced == [kind |-> "none", response |-> <<>>]

\* _coerce_to_response up to its return or its call of _attempt_repair
_coerce_to_response(raw, allow_repair) ==
    IF raw.kind = "instance"
    THEN Coerced(Response(raw.intent, NoParams, raw.confidence.value, <<>>))
    ELSE IF raw.kind # "object"
    THEN IF allow_repair THEN NeedsRepair ELSE NotCoerced
    ELSE IF ~validator_validate(raw)
    THEN IF allow_repair THEN NeedsRepair ELSE NotCoerced
    ELSE IF ~model_validate(raw)
    THEN IF allow_repair THEN NeedsRepair ELSE NotCoerced
    ELSE Coerced(Response(raw.intent, NoParams, raw.confidence.value, <<>>))

\* What self._model.repair does: it raises, returns None, or returns a payload
RepairRaises == [kind |-> "raises", payload |-> <<>>]
RepairNone == [kind |-> "none", payload |-> <<>>]
Repaired(payload) == [kind |-> "payload", payload |-> <<payload>>]

RepairOutcomes == { RepairRaises, RepairNone } \cup { Repaired(payload) : payload \in Candidates }

\* _attempt_repair validating the repaired payload with repair still allowed
_attempt_repair_again(repaired) ==
    IF repaired.kind # "payload" THEN NotCoerced
    ELSE _coerce_to_response(repaired.payload[1], TRUE)

\* _attempt_repair from the answer of self._model.repair on
_attempt_repair(repaired) ==
    IF repaired.kind # "payload" THEN NotCoerced
    ELSE _coerce_to_response(repaired.payload[1], FALSE)

\* A stream call: the candidates the model will yield, the number taken, and
\* for each candidate the calls of repair and the validations of a repaired
\* payload made for it
StreamingModelCall(candidates) ==
    [phase |-> "streaming", candidates |-> candidates, position |-> 0,
     repairs |-> [k \in 1..Len(candidates) |-> 0],
     revalidations |-> [k \in 1..Len(candidates) |-> 0],
     answers |-> [k \in 1..Len(candidates) |-> <<>>],
     yielded |-> <<>>, origins |-> <<>>]

RepairUnchanged ==
    UNCHANGED <<handler, catalog_cache, telemetry_recorder, embedding_service, tasks,
                guardrail_config, model_client>>

\* async for candidate in self._model.stream(...): the next candidate, through
\* _coerce_to_response up to the await of repair
stream_candidate ==
    /\ streaming_model.phase = "streaming"
    /\ streaming_model.position < Len(streaming_model.candidates)
    /\ LET s == streaming_model
           k == s.position + 1
           result == _coerce_to_response(s.candidates[k], TRUE)
           taken == [s EXCEPT !.position = k]
       IN streaming_model' =
            CASE result.kind = "response" ->
                    [taken EXCEPT !.yielded = Append(@, result.response[1]),
                                  !.origins = Append(@, k)]
              [] result.kind = "repair" ->
                    [taken EXCEPT !.phase = "repairing", !.repairs[k] = @ + 1]
              [] OTHER -> taken
    /\ RepairUnchanged

\* self._model.repair answers: _attempt_repair to its end, then the loop of
\* stream yields the response or goes on
repair_answered ==
    /\ streaming_model.phase = "repairing"
    /\ \E repaired \in RepairOutcomes :
        LET s == streaming_model
            k == s.position
            result == _attempt_repair(repaired)
            answered == [s EXCEPT !.answers[k] = Append(@, repaired),
                                  !.revalidations[k] =
                                      IF repaired.kind = "payload" THEN @ + 1 ELSE @]
        IN streaming_model' =
             CASE result.kind = "response" ->
                     [answered EXCEPT !.phase = "streaming",
                                      !.yielded = Append(@, result.response[1]),
                                      !.origins = Append(@, k)]
               [] result.kind = "repair" ->
                     [answered EXCEPT !.repairs[k] = @ + 1]
               [] OTHER -> [answered EXCEPT !.phase = "streaming"]
    /\ RepairUnchanged

\* The model's stream is exhausted
stream_exhausted ==
    /\ streaming_model.phase = "streaming"
    /\ streaming_model.position = Len(streaming_model.candidates)
    /\ streaming_model' = [streaming_model EXCEPT !.phase = "ended"]
    /\ RepairUnchanged

RepairInit ==
    /\ HandlerIdle
    /\ catalog_cache = <<>>
    /\ telemetry_recorder = <<>>
    /\ embedding_service = <<>>
    /\ tasks = <<>>
    /\ guardrail_config = <<>>
    /\ model_client = <<>>
    /\ \E candidates \in UNION { [1..n -> Candidates] : n \in 0..MaxCandidates } :
          streaming_model = StreamingModelCall(candidates)

RepairNext ==
    \/ stream_candidate
    \/ repair_answered
    \/ stream_exhausted

\* The event loop runs the coroutine whenever it can go on, and the model's
\* repair call answers
RepairSpec == RepairInit /\ [][RepairNext]_vars /\ WF_vars(RepairNext)

-----------------------------------------------------------------------------
(* StreamingModel._retrieve_catalog and QdrantClient.search                 *)
(* (adapter_service/main.py, lines 376-429 and 590-612)                      *)

COLLECTIONS == <<"ha_entities", "plex_media">>
CollectionNames == {COLLECTIONS[i] : i \in 1..Len(COLLECTIONS)}

\* One member of the "result" list of Qdrant: a point with a mapping as its
\* payload, a point without payload, a point whose payload is a string, or
\* something that is not a dict
Point(id, title) == [kind |-> "point", id |-> id, payload |-> <<title>>]
BarePoint(id) == [kind |-> "bare", id |-> id, payload |-> <<>>]
TextPoint(id) == [kind |-> "text", id |-> id, payload |-> <<>>]
Junk == [kind |-> "junk", id |-> 0, payload |-> <<>>]

\* What the HTTP request of one search comes to: a result list, a body whose
\* "result" is not a list, an httpx.HTTPError (status or connection), an
\* httpx.TimeoutException, or another exception (a body that is not JSON, or
\* an injected client that raises)
Found(items) == [kind |-> "result", items |-> items]
SearchAnswers ==
    { Found(<<>>),
      Found(<<Point(1, "lamp")>>),
      Found(<<Point(1, "lamp"), Junk, Point(2, "movie")>>),
      Found(<<BarePoint(3), TextPoint(4)>>),
      [kind |-> "not_a_list", items |-> <<>>],
      [kind |-> "http_error", items |-> <<>>],
      [kind |-> "timeout", items |-> <<>>],
      [kind |-> "raises", items |-> <<>>] }

SearchReturned(items) == [raised |-> FALSE, items |-> items]
SearchRaised == [raised |-> TRUE, items |-> <<>>]

\* The items of the given kinds, in order
RECURSIVE KeptPoints(_, _)
KeptPoints(items, kinds) ==
    IF items = <<>> THEN <<>>
    ELSE (IF Head(items).kind \in kinds THEN <<Head(items)>> ELSE <<>>)
         \o KeptPoints(Tail(items), kinds)

\* QdrantClient.search: nothing is asked without host or vector; HTTPError,
\* of which TimeoutException is a subclass, gives []; the dicts of the
\* result list are kept, a missing payload becoming {}
QdrantClient_search(host, vector, answer) ==
    IF host = "" \/ vector = <<>> THEN SearchReturned(<<>>)
    ELSE CASE answer.kind \in {"http_error", "timeout", "not_a_list"} -> SearchReturned(<<>>)
           [] answer.kind = "raises" -> SearchRaised
           [] OTHER -> SearchReturned(KeptPoints(answer.items, {"point", "bare", "text"}))

\* _normalize_retrieved: the items whose payload is a mapping, filtered for
\* their collection
_normalize_retrieved(collection, items) ==
    LET kept == KeptPoints(items, {"point", "bare"})
    IN [i \in 1..Len(kept) |->
          [id |-> kept[i].id, payload |-> kept[i].payload,
           filter |-> IF collection = "ha_entities" THEN "_filter_entity"
                      ELSE "_filter_plex_item"]]

\* _retrieve_catalog, lines 606-612, with a gather that lets the first
\* exception through: the caller, stream, then goes on without retrieval
_retrieve_catalog_payload_all_or_nothing(results) ==
    IF \E collection \in CollectionNames : results[collection].raised
    THEN [collection \in CollectionNames |-> <<>>]
    ELSE [collection \in CollectionNames |->
            _normalize_retrieved(collection, results[collection].items)]

\* _retrieve_catalog, lines 606-612: gather(return_exceptions=True) hands
\* back one result per search, and an exception leaves its collection empty
_retrieve_catalog_payload(results) ==
    [collection \in CollectionNames |->
        IF results[collection].raised THEN <<>>
        ELSE _normalize_retrieved(collection, results[collection].items)]

PendingSearch == [pc |-> "pending", answer |-> <<>>, result |-> <<>>]

RetrieveUnchanged ==
    UNCHANGED <<handler, catalog_cache, telemetry_recorder, embedding_service, tasks,
                guardrail_config, model_client>>

\* _retrieve_catalog up to its await: without a vector it returns at once,
\* else gather starts one search per collection
_retrieve_catalog ==
    /\ streaming_model.phase = "embedded"
    /\ streaming_model' =
         IF streaming_model.vector = <<>>
         THEN [streaming_model EXCEPT
                 !.phase = "retrieved",
                 !.retrieved = <<[collection \in CollectionNames |-> <<>>]>>]
         ELSE [streaming_model EXCEPT
                 !.phase = "retrieving",
                 !.searches = [collection \in CollectionNames |-> PendingSearch]]
    /\ RetrieveUnchanged

\* One of the searches comes to its end
search_done(collection) ==
    /\ streaming_model.phase = "retrieving"
    /\ streaming_model.searches[collection].pc = "pending"
    /\ \E answer \in SearchAnswers :
          streaming_model' =
            [streaming_model EXCEPT
               !.searches[collection] =
                   [pc |-> "done", answer |-> <<answer>>,
                    result |-> <<QdrantClient_search(streaming_model.host,
                                                     streaming_model.vector, answer)>>]]
    /\ RetrieveUnchanged

\* gather returns once every search is done
gather_done ==
    /\ streaming_model.phase = "retrieving"
    /\ \A collection \in CollectionNames : streaming_model.searches[collection].pc = "done"
    /\ streaming_model' =
         [streaming_model EXCEPT
            !.phase = "retrieved",
            !.retrieved =
                <<_retrieve_catalog_payload(
                     [collection \in CollectionNames |->
                         streaming_model.searches[collection].result[1]])>>]
    /\ RetrieveUnchanged

RetrieveInit ==
    /\ HandlerIdle
    /\ catalog_cache = <<>>
    /\ telemetry_recorder = <<>>
    /\ embedding_service = <<>>
    /\ tasks = <<>>
    /\ guardrail_config = <<>>
    /\ model_client = <<>>
    /\ \E host \in {"", "http://qdrant:6333"}, vector \in {<<>>, <<12, -7>>} :
          streaming_model = [phase |-> "embedded", host |-> host, vector |-> vector,
                             searches |-> <<>>, retrieved |-> <<>>]

RetrieveNext ==
    \/ _retrieve_catalog
    \/ \E collection \in CollectionNames : search_done(collection)
    \/ gather_done

RetrieveSpec == RetrieveInit /\ [][RetrieveNext]_vars

-----------------------------------------------------------------------------
(* The handler with a telemetry recorder that may fail                      *)
(* (conversation.py, lines 345-356 and 455-476)                              *)

\* The default options, and a deduplication window of zero
RecorderOptions == { <<>>, [deduplication_window_seconds |-> 0] }

recorder_async_handle == Handle(RecorderOptions, AnsweredPosts(SecretResponses))

RecorderInit ==
    /\ guardrails \in GuardrailConfigs
    /\ dedupe = <<>>
    /\ last_shared_secret = <<>>
    /\ adapter_shared_secret = ""
    /\ clock = 0
    /\ call = IdleCall
    /\ intent_executor = "injected"
    /\ wire = NoRequest
    /\ service = NoService
    /\ catalog_cache = <<>>
    /\ telemetry_recorder \in { [raises |-> TRUE], [raises |-> FALSE] }
    /\ embedding_service = <<>>
    /\ tasks = <<>>
    /\ guardrail_config = <<>>
    /\ model_client = <<>>
    /\ streaming_model = <<>>

RecorderNext ==
    \/ recorder_async_handle
    \/ Return
    \/ Tick

RecorderSpec == RecorderInit /\ [][RecorderNext]_vars

-----------------------------------------------------------------------------
(* Windows whose start hour is their end hour                               *)
(* (conversation.py, lines 390-402 and 546-553)                              *)

SameHours == {0, 12, 22}

\* unlock_door is dangerous and allowed from an hour to the same hour
SameHourConfigs ==
    { GuardrailBundle(<<>>, {}, {"unlock_door"}, "unlock_door" :> <<hour, hour>>, <<>>) :
        hour \in SameHours }

\* Night mode from an hour to the same hour, or switched off
SameHourOptions ==
    { [night_mode_enabled |-> TRUE,
       night_mode_start_hour |-> hour,
       night_mode_end_hour |-> hour,
       deduplication_window_seconds |-> 0] : hour \in SameHours }
    \cup { [night_mode_enabled |-> FALSE, deduplication_window_seconds |-> 0] }

SameHourResponses == { response \in Responses : response.intent = "unlock_door" }

same_hour_async_handle ==
    HandleAt(SameHourOptions, AnsweredPosts(SameHourResponses), AllHours)

SameHourInit ==
    /\ guardrails \in SameHourConfigs
    /\ dedupe = <<>>
    /\ last_shared_secret = <<>>
    /\ adapter_shared_secret = ""
    /\ clock = 0
    /\ call = IdleCall
    /\ intent_executor = "injected"
    /\ wire = NoRequest
    /\ service = NoService
    /\ ComponentsIdle

SameHourNext ==
    \/ same_hour_async_handle
    \/ Return

SameHourSpec == SameHourInit /\ [][SameHourNext]_vars

-----------------------------------------------------------------------------
(* Vocabulary of the properties *)

\* The options switch night mode on
NIGHT_ENABLED_IN(options) ==
    /\ OPT_NIGHT_MODE_ENABLED \in DOMAIN options
    /\ options[OPT_NIGHT_MODE_ENABLED]

\* This step is one whole async_handle call
Handled == call.state = "idle" /\ call'.state # "idle"

\* The finished call obtained a response from the adapter
Answered(c) == c.state = "returned" /\ c.response # <<>>

\* The hours of a window that opens at start and closes before end, going
\* forward round the clock
WindowHours(start, end) ==
    { (start + k) % 24 : k \in 0..(((end - start) % 24) - 1) }

\* The dedupe window in force for an intent: its override when one is
\* configured, the global option (default 2 s) otherwise
EffectiveWindow(g, options, intent) ==
    IF intent \in DOMAIN g.recent_command_windows
    THEN g.recent_command_windows[intent]
    ELSE IF OPT_DEDUPLICATION_WINDOW \in DOMAIN options
    THEN options[OPT_DEDUPLICATION_WINDOW]
    ELSE DEFAULT_DEDUPLICATION_WINDOW

\* The identity of a response for duplicate suppression
TokenOf(c) ==
    LET r == c.response[1]
    IN [intent |-> r.intent, area |-> r.area, targets |-> r.targets, params |-> r.params]

-----------------------------------------------------------------------------
(* C1: when night mode is enabled and the hour read lies in the configured  *)
(* window, the call returns blocked with reason night_mode_active, and the  *)
(* adapter's interpret is not called, the executor is not invoked and the   *)
(* dedupe map is left as it was.                                            *)
C1_NightModeBlocksBeforeAdapter ==
    [][ ( /\ Handled
          /\ NIGHT_ENABLED_IN(call'.options)
          /\ call'.night_hour # <<>>
          /\ call'.night_hour[1] \in WindowHours(call'.options[OPT_NIGHT_MODE_START_HOUR],
                                                 call'.options[OPT_NIGHT_MODE_END_HOUR]) )
        => ( /\ call'.state = "returned"
             /\ call'.success = FALSE
             /\ call'.outcome = "blocked"
             /\ call'.reason = "night_mode_active"
             /\ call'.interpret_calls = 0
             /\ call'.response = <<>>
             /\ call'.executor_calls = 0
             /\ dedupe' = dedupe ) ]_vars

C1_Witness ==
    /\ call.state = "returned"
    /\ call.reason = "night_mode_active"
    /\ call.night_hour = <<3>>
    /\ DOMAIN dedupe # {}

(* C2: two consecutive calls with the same response, a positive effective   *)
(* window and a succeeding executor. The first call executes and stores its *)
(* gate time under the response's token; nothing but a later call changes   *)
(* the map, so the second call finds that entry. If its gate time is less   *)
(* than the window after the stored one it is blocked with "Duplicate       *)
(* command suppressed." and the executor does not run again; if the gap has *)
(* reached the window it is not suppressed and executes.                    *)
C2_DuplicateWithinWindow ==
    [][ (Handled /\ Answered(call')) =>
          LET token == TokenOf(call')
              window == EffectiveWindow(guardrails, call'.options, token.intent)
          IN /\ (call'.success /\ window > 0)
                    => /\ token \in DOMAIN dedupe'
                       /\ dedupe'[token] = call'.now_value[1]
             /\ (call'.now_value # <<>> /\ token \in DOMAIN dedupe /\ window > 0)
                    => LET gap == call'.now_value[1] - dedupe[token]
                       IN /\ gap < window
                              => /\ call'.success = FALSE
                                 /\ call'.outcome = "blocked"
                                 /\ call'.message = "Duplicate command suppressed."
                                 /\ call'.executor_calls = 0
                                 /\ dedupe'[token] = dedupe[token]
                          /\ gap >= window
                              => /\ call'.reason # "duplicate_suppressed"
                                 /\ call'.executor = "ok"
                                        => call'.success /\ call'.executor_calls = 1 ]_vars

C2_Witness ==
    /\ Answered(call)
    /\ call.reason = "duplicate_suppressed"
    /\ TokenOf(call) \in DOMAIN dedupe
    /\ call.now_value[1] > dedupe[TokenOf(call)]

(* C3 (as claimed): whatever calls intervene, an entry leaves the dedupe    *)
(* map only when its age has reached the effective window of its own        *)
(* intent, and while it is younger an identical response is suppressed.     *)
C3_PruningRespectsOwnWindow ==
    [][ Handled =>
          /\ \A token \in (DOMAIN dedupe) \ (DOMAIN dedupe') :
                /\ call'.now_value # <<>>
                /\ call'.now_value[1] - dedupe[token]
                      >= EffectiveWindow(guardrails, call'.options, token.intent)
          /\ ( /\ Answered(call')
               /\ call'.now_value # <<>>
               /\ TokenOf(call') \in DOMAIN dedupe
               /\ call'.now_value[1] - dedupe[TokenOf(call')]
                     < EffectiveWindow(guardrails, call'.options, TokenOf(call').intent) )
             => call'.reason = "duplicate_suppressed" ]_vars

(* C4: when the executor raises, the call still returns: success is False,  *)
(* the message is one of the "failed" messages, one telemetry event with    *)
(* outcome failed is recorded, and the map holds no timestamp for the       *)
(* response's token; a response whose token is not in the map is never      *)
(* suppressed as a duplicate, so the retry reaches the executor.            *)
C4_ExecutorFailureIsRetryable ==
    [][ Handled =>
          /\ call'.executor \in {"IntentHandlingError", "Exception"}
                => /\ call'.state = "returned"
                   /\ call'.success = FALSE
                   /\ call'.outcome = "failed"
                   /\ call'.message \in
                        { "Intent execution failed: boom",
                          "Intent execution failed due to an unexpected error." }
                   /\ call'.telemetry = <<"failed">>
                   /\ TokenOf(call') \notin DOMAIN dedupe'
          /\ (Answered(call') /\ TokenOf(call') \notin DOMAIN dedupe)
                => call'.reason # "duplicate_suppressed" ]_vars

C4_Witness ==
    /\ Answered(call)
    /\ call.executor = "Exception"
    /\ call.outcome = "failed"
    /\ DOMAIN dedupe # {}

(* C5 (as claimed): a response whose intent has a per-intent threshold and  *)
(* whose confidence is at or above it is never blocked with reason          *)
(* confidence_gate.                                                         *)
C5_OverrideReplacesGlobalGate ==
    ( /\ Answered(call)
      /\ call.response[1].intent \in DOMAIN guardrails.intent_thresholds
      /\ call.response[1].confidence
            >= guardrails.intent_thresholds[call.response[1].intent] )
    => call.reason # "confidence_gate"

(* C6: a response whose confidence is below the per-intent threshold of its *)
(* intent is blocked and never reaches the executor, whatever the global    *)
(* gate and threshold; the reason is intent_threshold unless the disabled   *)
(* gate, which comes first, has already blocked it.                         *)
C6_IntentThresholdBlocks ==
    ( /\ Answered(call)
      /\ call.response[1].intent \in DOMAIN guardrails.intent_thresholds
      /\ call.response[1].confidence
            < guardrails.intent_thresholds[call.response[1].intent] )
    => /\ call.success = FALSE
       /\ call.outcome = "blocked"
       /\ call.executor_calls = 0
       /\ call.response[1].intent \notin guardrails.disabled_intents
             => call.reason = "intent_threshold"

C6_Witness ==
    /\ Answered(call)
    /\ call.reason = "intent_threshold"
    /\ OPT_ENABLE_CONFIDENCE_GATE \in DOMAIN call.options
    /\ call.options[OPT_ENABLE_CONFIDENCE_GATE]
    /\ call.options[OPT_CONFIDENCE_THRESHOLD] <= call.response[1].confidence

(* C7: a response whose intent is in the disabled set is blocked with       *)
(* reason intent_disabled whatever its confidence; the executor is not      *)
(* invoked and the dedupe map is left as it was.                            *)
C7_DisabledIntentBlocked ==
    [][ ( /\ Handled
          /\ Answered(call')
          /\ call'.response[1].intent \in guardrails.disabled_intents )
        => ( /\ call'.success = FALSE
             /\ call'.outcome = "blocked"
             /\ call'.reason = "intent_disabled"
             /\ call'.executor_calls = 0
             /\ dedupe' = dedupe ) ]_vars

C7_Witness ==
    /\ Answered(call)
    /\ call.reason = "intent_disabled"
    /\ call.response[1].confidence = 95
    /\ DOMAIN dedupe # {}

\* The required signals of a finished call that the provider did not return,
\* names compared without regard to case
AbsentSignals(c) ==
    { c.response[1].required_secondary_signals[i] :
        i \in { j \in 1..Len(c.response[1].required_secondary_signals) :
                  \A p \in c.provided[1] :
                      Lower(p) # Lower(c.response[1].required_secondary_signals[j]) } }

\* The message that names exactly the given signals
SignalMessage(absent) ==
    CASE absent = {"Presence"} -> "Secondary signals required: Presence."
      [] absent = {"voice"} -> "Secondary signals required: voice."
      [] absent = {"Presence", "voice"} -> "Secondary signals required: Presence, voice."
      [] OTHER -> "Secondary signals required."

(* C8: for a response that declares required secondary signals, the         *)
(* executor is invoked only after the provider was asked and returned every *)
(* required signal (case-insensitively); when the provider's answer lacks   *)
(* one, the call is blocked with reason missing_secondary_signals and a     *)
(* "Secondary signals required" message naming exactly the absent signals,  *)
(* and it is blocked for that reason in no other case.                      *)
C8_SecondarySignalsRequired ==
    ( /\ Answered(call)
      /\ call.response[1].required_secondary_signals # <<>> )
    => /\ call.executor_calls > 0
             => (call.provided # <<>> /\ AbsentSignals(call) = {})
       /\ (call.provided # <<>> /\ AbsentSignals(call) # {})
             => /\ call.success = FALSE
                /\ call.outcome = "blocked"
                /\ call.reason = "missing_secondary_signals"
                /\ call.message = SignalMessage(AbsentSignals(call))
                /\ call.executor_calls = 0
       /\ call.reason = "missing_secondary_signals"
             => (call.provided # <<>> /\ AbsentSignals(call) # {})

C8_Witness ==
    /\ Answered(call)
    /\ call.provided = <<{"PRESENCE"}>>
    /\ call.response[1].required_secondary_signals = <<"Presence", "voice">>
    /\ call.message = "Secondary signals required: voice."

(* C9: for a dangerous intent with allowed hours configured (start and end  *)
(* different), a call that finds the current hour outside the allowed       *)
(* window (which wraps round midnight when start > end) is blocked with     *)
(* reason dangerous_intent_after_hours and the executor is not invoked.     *)
C9_DangerousOutsideAllowedHours ==
    ( /\ Answered(call)
      /\ call.response[1].intent \in guardrails.dangerous_intents
      /\ call.response[1].intent \in DOMAIN guardrails.allowed_hours
      /\ guardrails.allowed_hours[call.response[1].intent][1]
            # guardrails.allowed_hours[call.response[1].intent][2]
      /\ call.allowed_hour # <<>>
      /\ call.allowed_hour[1] \notin
            WindowHours(guardrails.allowed_hours[call.response[1].intent][1],
                        guardrails.allowed_hours[call.response[1].intent][2]) )
    => /\ call.success = FALSE
       /\ call.outcome = "blocked"
       /\ call.reason = "dangerous_intent_after_hours"
       /\ call.executor_calls = 0

C9_Witness ==
    /\ Answered(call)
    /\ call.response[1].intent = "unlock_door"
    /\ guardrails.allowed_hours["unlock_door"] = <<7, 21>>
    /\ call.allowed_hour = <<22>>
    /\ call.reason = "dangerous_intent_after_hours"

\* A flags value that is not empty
NonEmptyFlags(v) ==
    \/ v.type = "str" /\ v.text # ""
    \/ v.type = "list" /\ v.items # <<>>

\* The params carry an explicit verification flag or confirmation
CarriesVerification(params) ==
    \/ NonEmptyFlags(params.verification_flags)
    \/ /\ params.verification.type = "dict"
       /\ \/ NonEmptyFlags(params.verification.flags)
          \/ params.verification.confirmed = PyBool(TRUE)
          \/ params.verification.verified = PyBool(TRUE)
    \/ params.verified = PyBool(TRUE)

(* C10: for a dangerous intent the executor is invoked only if the params   *)
(* carry a verification flag or confirmation. Without one the call is       *)
(* always blocked, and once it is past the earlier gates the reason is      *)
(* dangerous_intent_missing_verification, both when the hour read is inside *)
(* the allowed hours and when no allowed hours are configured.              *)
C10_DangerousNeedsVerification ==
    ( /\ Answered(call)
      /\ call.response[1].intent \in guardrails.dangerous_intents )
    => /\ call.executor_calls > 0 => CarriesVerification(call.response[1].params)
       /\ ~CarriesVerification(call.response[1].params)
             => /\ call.success = FALSE
                /\ call.outcome = "blocked"
                /\ call.executor_calls = 0
                /\ ( /\ call.now_value # <<>>
                     /\ call.reason \notin {"duplicate_suppressed", "missing_secondary_signals"}
                     /\ \/ call.response[1].intent \notin DOMAIN guardrails.allowed_hours
                        \/ /\ call.allowed_hour # <<>>
                           /\ call.allowed_hour[1] \in
                                WindowHours(guardrails.allowed_hours[call.response[1].intent][1],
                                            guardrails.allowed_hours[call.response[1].intent][2]) )
                   => call.reason = "dangerous_intent_missing_verification"

C10_Witness ==
    /\ Answered(call)
    /\ call.reason = "dangerous_intent_missing_verification"
    /\ call.response[1].params.verified = PyBool(FALSE)
    /\ call.allowed_hour = <<12>>

(* C11: with night mode enabled, for every hour 0..23 and every window: when *)
(* start > end the call is blocked by night mode iff hour >= start or        *)
(* hour < end; when start < end it is blocked iff start <= hour < end. With  *)
(* start = 23 and end = 6, hours 23 and 3 are blocked and hour 12 is not.    *)
C11_NightWindowWrapAround ==
    ( /\ call.state # "idle"
      /\ NIGHT_ENABLED_IN(call.options) )
    => LET start == call.options[OPT_NIGHT_MODE_START_HOUR]
           end == call.options[OPT_NIGHT_MODE_END_HOUR]
           hour == call.night_hour[1]
           blocked == /\ call.state = "returned"
                      /\ call.success = FALSE
                      /\ call.reason = "night_mode_active"
       IN /\ call.night_hour # <<>>
          /\ start > end => (blocked <=> (hour >= start \/ hour < end))
          /\ start < end => (blocked <=> (start <= hour /\ hour < end))
          /\ (start = 23 /\ end = 6 /\ hour \in {23, 3}) => blocked
          /\ (start = 23 /\ end = 6 /\ hour = 12) => ~blocked

C11_Witness ==
    /\ call.state = "returned"
    /\ NIGHT_ENABLED_IN(call.options)
    /\ call.options[OPT_NIGHT_MODE_START_HOUR] = 23
    /\ call.options[OPT_NIGHT_MODE_END_HOUR] = 6
    /\ call.night_hour = <<12>>
    /\ call.success = TRUE

\* The post of the finished call ended with HTTP 401
Rejected(c) == c.adapter = <<"HTTPStatusError", 401>>

\* The adapter call of the finished call failed and gave the noop fallback
Degraded(c) ==
    /\ c.adapter # <<>>
    /\ ~Rejected(c)
    /\ c.adapter # <<"response", 200>> \/ c.response[1].adapter_error # <<>>

C15_DegradedNeverExecutes ==
    [][ ( /\ Handled
          /\ intent_executor = "async_execute_intent"
          /\ Degraded(call') )
        => ( /\ call'.response[1].intent = "noop"
             /\ call'.response[1].confidence = 0
             /\ call'.state = "returned"
             /\ call'.success = FALSE
             /\ call'.service_calls = 0
             /\ call'.outcome \in {"blocked", "failed"}
             /\ TokenOf(call') \notin DOMAIN dedupe'
             /\ DOMAIN dedupe' \subseteq DOMAIN dedupe
             /\ \A token \in DOMAIN dedupe' : dedupe'[token] = dedupe[token] ) ]_vars

\* The degraded call passed every gate (the confidence gate being off) and
\* reached the executor, which refused it
C15_Witness ==
    /\ call.state = "returned"
    /\ Degraded(call)
    /\ ~get(call.options, OPT_ENABLE_CONFIDENCE_GATE, DEFAULT_CONFIDENCE_GATE)
    /\ call.executor_calls = 1
    /\ call.outcome = "failed"
    /\ DOMAIN dedupe # {}

\* The post of the last interpret call failed otherwise than with HTTP 401
FailedPost(w) ==
    /\ w.state # "idle"
    /\ w.post # Unauthorized
    /\ w.post.kind = "response" => ~(w.post.json /\ w.post.schema)

(* C13 (as claimed): for a transport error, a status error other than 401,  *)
(* an unparsable body or a body that fails the schema, interpret raises     *)
(* nothing and returns a response with intent noop, confidence 0.0, a       *)
(* non-empty adapter_error and a non-empty params.reason.                   *)
C13_FailureGivesDescribedNoop ==
    FailedPost(wire)
    => /\ wire.state = "returned"
       /\ wire.result.response.intent = "noop"
       /\ wire.result.response.confidence = 0
       /\ wire.result.response.adapter_error # <<>>
       /\ wire.result.response.adapter_error # <<"">>
       /\ wire.result.response.params.reason.type = "str"
       /\ wire.result.response.params.reason.text # ""

(* C16: interpret attaches the X-Entangled-Signature header exactly when a  *)
(* non-empty shared secret is configured; its value is the hex HMAC-SHA256  *)
(* under that secret of the very bytes sent as the body, and a service      *)
(* holding the same secret accepts the request (it does not answer 401).    *)
C16_SignatureOverSentBody ==
    wire.state # "idle"
    => /\ (SIGNATURE_HEADER \in DOMAIN wire.headers) <=> (wire.shared_secret # "")
       /\ wire.shared_secret # ""
             => /\ wire.headers[SIGNATURE_HEADER] = HmacSha256(wire.shared_secret, wire.body)
                /\ SignatureCheck(<<wire.shared_secret>>, wire.body, wire.headers) = "ok"
       /\ (service.shared_secret = <<wire.shared_secret>> /\ wire.post.kind # "HTTPError")
             => wire.post # Unauthorized

C16_Witness ==
    /\ wire.state = "returned"
    /\ wire.shared_secret = "alpha"
    /\ service.shared_secret = <<"alpha">>
    /\ SIGNATURE_HEADER \in DOMAIN wire.headers
    /\ wire.post.kind = "response"
    /\ wire.post.json /\ wire.post.schema

(* C17: with a shared secret configured, POST /interpret is accepted only   *)
(* if the provided signature equals the HMAC-SHA256 of the raw body under   *)
(* that secret: a missing signature, one made with another secret and one   *)
(* made over a body that differs in a byte are answered 401 and nothing is  *)
(* streamed; with no secret configured the signature is not checked.        *)
C17_SignatureGate ==
    (service.consumer = "interpret" /\ service.state # "ready")
    => LET secret == service.shared_secret
           expected == <<HmacSha256(secret[1], service.body)>>
       IN /\ secret = <<>> => service.status # 401
          /\ secret # <<>>
                => /\ service.status # 401 <=> service.signature = expected
                   /\ service.signature = <<>>
                         => service.status = 401 /\ service.detail = "Missing signature"
                   /\ (service.signature # <<>> /\ service.signature # expected)
                         => service.status = 401 /\ service.detail = "Invalid signature"
          /\ service.status = 401
                => /\ service.state = "responded"
                   /\ service.stream = "none"
                   /\ service.chunks = <<>>
                   /\ service.response = <<>>

C17_Witness ==
    /\ service.consumer = "interpret"
    /\ service.shared_secret = <<"alpha">>
    /\ service.status = 401
    /\ service.body = RequestBody("dim the lights", ServiceCatalog)
    /\ service.signature = <<HmacSha256("alpha", RequestBody("dim the lightz", ServiceCatalog))>>

\* The raw confidence of the fragment behind the i-th observed response
RawOf(i) == service.fragments[service.origins[i]].confidence

(* C18: every response yielded by ModelClient.stream has a confidence in    *)
(* [0, 1] whatever the fragment carried: a value above 1 becomes 1.0, a     *)
(* value below 0 becomes 0.0, a missing or non-numeric value becomes 0.0    *)
(* (and a value inside the range is kept); a fragment with such a value and *)
(* an intent is yielded, not dropped.                                       *)
C18_ConfidenceClamp ==
    /\ \A i \in DOMAIN service.chunks :
        LET confidence == service.chunks[i].confidence
        IN /\ 0 <= confidence /\ confidence <= 100
           /\ (RawOf(i).type = "number" /\ RawOf(i).value > 100) => confidence = 100
           /\ (RawOf(i).type = "number" /\ RawOf(i).value < 0) => confidence = 0
           /\ (RawOf(i).type = "number" /\ RawOf(i).value \in 0..100)
                 => confidence = RawOf(i).value
           /\ (RawOf(i) = Missing \/ RawOf(i) = Text("high")) => confidence = 0
    /\ \A j \in 1..service.position :
        LET fragment == service.fragments[j]
        IN (/\ fragment.kind = "object"
            /\ fragment.intent # ""
            /\ fragment.confidence.type \in {"missing", "number", "text"})
           => \E i \in DOMAIN service.origins : service.origins[i] = j

C18_Witness ==
    \E i, j \in DOMAIN service.chunks :
        /\ RawOf(i) = Text("high") /\ service.chunks[i].confidence = 0
        /\ RawOf(j) = Number(140) /\ service.chunks[j].confidence = 100

\* The responses the consumer has observed are those of the lines read
ObservedAllRead ==
    /\ Len(service.origins) = Len(service.chunks)
    /\ \A i \in DOMAIN service.origins :
        /\ service.origins[i] \in 1..service.position
        /\ i > 1 => service.origins[i - 1] < service.origins[i]
        /\ _collect(service.fragments[service.origins[i]]).response = <<service.chunks[i]>>
    /\ \A j \in 1..service.position :
        _collect(service.fragments[j]).kind = "response"
        => \E i \in DOMAIN service.origins : service.origins[i] = j

(* C19: whatever the stream and the threshold, the consumer (the /interpret *)
(* handler, or a caller that keeps every item of ModelClient.stream)        *)
(* observes every response up to and including the first whose confidence   *)
(* is at or above the threshold, and nothing after it: no line is read past *)
(* it, and the consumer stops earlier only when the stream has ended.       *)
C19_EarlyStop ==
    /\ ObservedAllRead
    /\ \A i \in DOMAIN service.chunks :
        service.chunks[i].confidence >= service.confidence_threshold
        => /\ i = Len(service.chunks)
           /\ service.position = service.origins[i]
    /\ (service.state = "responded" /\ service.status # 401)
       => \/ /\ service.chunks # <<>>
             /\ service.chunks[Len(service.chunks)].confidence >= service.confidence_threshold
          \/ service.stream = "exhausted" /\ service.position = Len(service.fragments)
          \/ service.stream = "raised"
          \/ service.stream \in {"unset", "setup_failed"} /\ service.chunks = <<>>

C19_Witness ==
    /\ service.consumer = "interpret"
    /\ service.state = "responded"
    /\ service.confidence_threshold = 80
    /\ service.fragments = << Object("turn_on", Number(50)), Object("turn_on", Number(86)),
                             Object("turn_on", Number(90)) >>
    /\ Len(service.chunks) = 2
    /\ service.chunks[1].confidence = 50
    /\ service.chunks[2].confidence = 86
    /\ service.position = 2

(* C20: the /interpret handler returns the last response the stream         *)
(* yielded: the first chunk at or above the threshold if there is one,      *)
(* otherwise the final chunk of the stream; if nothing was yielded (no      *)
(* model, failed setup, every fragment dropped) it returns a noop response  *)
(* with confidence 0.0 and the reason "Adapter produced no response".       *)
C20_ReturnsLastYielded ==
    (service.consumer = "interpret" /\ service.state = "responded" /\ service.status # 401)
    => LET chunks == service.chunks
           threshold == service.confidence_threshold
           reached == { i \in DOMAIN chunks : chunks[i].confidence >= threshold }
       IN /\ service.status = 200
          /\ ObservedAllRead
          /\ chunks # <<>> => service.response = <<chunks[Len(chunks)]>>
          /\ reached # {}
                => \E i \in reached :
                    /\ \A k \in reached : i <= k
                    /\ service.response = <<chunks[i]>>
          /\ reached = {}
                => \/ service.position = Len(service.fragments)
                   \/ /\ service.stream = "raised"
                      /\ _collect(service.fragments[service.position]).kind = "raised"
          /\ chunks = <<>>
                => /\ service.response # <<>>
                   /\ service.response[1].intent = "noop"
                   /\ service.response[1].confidence = 0
                   /\ service.response[1].params.reason = PyStr("Adapter produced no response")

C20_Witness ==
    /\ service.consumer = "interpret"
    /\ service.state = "responded"
    /\ service.status = 200
    /\ service.confidence_threshold = 80
    /\ service.position = 3
    /\ Len(service.chunks) = 2
    /\ service.chunks[1].confidence = 0
    /\ service.chunks[2].confidence = 50
    /\ service.response = <<service.chunks[2]>>

(* C23 (as claimed): every async_handle call that ends in a block, a        *)
(* successful execution or an executor failure emits exactly one guardrail  *)
(* log entry, and that entry carries the call's reason code and outcome.    *)
C23_OneGuardrailLogPerOutcome ==
    (call.state = "returned" /\ call.outcome \in {"blocked", "executed", "failed"})
    => /\ Len(call.log) = 1
       /\ call.log[1].outcome = call.outcome
       /\ call.log[1].reason = call.reason

(* C24 (as claimed): with a telemetry recorder configured, every            *)
(* async_handle call that reaches a decision (blocked by a gate, executed,  *)
(* or failed) passes one event with that outcome to the recorder.           *)
C24_OneTelemetryEventPerDecision ==
    (call.state = "returned" /\ call.outcome \in {"blocked", "executed", "failed"})
    => call.telemetry = <<call.outcome>>

(* C25: the dedupe window of an evaluation is the override configured for   *)
(* the response's intent, and the global option (default 2 s) when there is *)
(* none: a call that reaches the duplicate gate is suppressed exactly when  *)
(* the token's stored time is less than that window old, and pruning keeps  *)
(* exactly the entries younger than it. With a global window of 2 s and an  *)
(* override of 3 s a repeat 2 s after the execution is blocked.             *)
C25_EffectiveWindow ==
    [][ (Handled /\ Answered(call') /\ call'.now_value # <<>>) =>
          LET token == TokenOf(call')
              now == call'.now_value[1]
              windows == guardrails.recent_command_windows
              window == IF token.intent \in DOMAIN windows THEN windows[token.intent]
                        ELSE IF OPT_DEDUPLICATION_WINDOW \in DOMAIN call'.options
                        THEN call'.options[OPT_DEDUPLICATION_WINDOW]
                        ELSE DEFAULT_DEDUPLICATION_WINDOW
          IN /\ call'.reason = "duplicate_suppressed"
                    <=> (window > 0 /\ token \in DOMAIN dedupe /\ now - dedupe[token] < window)
             /\ \A t \in DOMAIN dedupe :
                    IF window > 0 /\ now - dedupe[t] < window
                    THEN t \in DOMAIN dedupe' /\ (t # token => dedupe'[t] = dedupe[t])
                    ELSE t # token => t \notin DOMAIN dedupe' ]_vars

C25_Witness ==
    /\ Answered(call)
    /\ call.reason = "duplicate_suppressed"
    /\ TokenOf(call).intent \in DOMAIN guardrails.recent_command_windows
    /\ guardrails.recent_command_windows[TokenOf(call).intent] = 3
    /\ OPT_DEDUPLICATION_WINDOW \in DOMAIN call.options
    /\ call.options[OPT_DEDUPLICATION_WINDOW] = 2
    /\ call.now_value[1] - dedupe[TokenOf(call)] = 2

(* C30: a call blocked as a duplicate leaves the stored time of its token   *)
(* as it was; a stored time is written only by a successful execution, with *)
(* the gate time of that call; so the window runs from the last execution   *)
(* and a repeat whose gate time is a full window after it is not            *)
(* suppressed, however many blocked repeats came in between.                *)
C30_BlockedRepeatKeepsTimestamp ==
    [][ Handled =>
          /\ call'.reason = "duplicate_suppressed"
                => /\ TokenOf(call') \in DOMAIN dedupe
                   /\ TokenOf(call') \in DOMAIN dedupe'
                   /\ dedupe'[TokenOf(call')] = dedupe[TokenOf(call')]
                   /\ call'.executor_calls = 0
          /\ \A t \in DOMAIN dedupe' :
                (t \notin DOMAIN dedupe \/ dedupe'[t] # dedupe[t])
                => /\ call'.state = "returned"
                   /\ call'.outcome = "executed"
                   /\ t = TokenOf(call')
                   /\ dedupe'[t] = call'.now_value[1]
          /\ ( /\ Answered(call')
               /\ call'.now_value # <<>>
               /\ TokenOf(call') \in DOMAIN dedupe
               /\ call'.now_value[1] - dedupe[TokenOf(call')]
                     >= EffectiveWindow(guardrails, call'.options, TokenOf(call').intent) )
             => /\ call'.reason # "duplicate_suppressed"
                /\ ( /\ call'.outcome = "executed"
                     /\ EffectiveWindow(guardrails, call'.options, TokenOf(call').intent) > 0 )
                   => /\ TokenOf(call') \in DOMAIN dedupe'
                      /\ dedupe'[TokenOf(call')] = call'.now_value[1] ]_vars

C30_Witness ==
    /\ Answered(call)
    /\ call.reason = "duplicate_suppressed"
    /\ EffectiveWindow(guardrails, call.options, TokenOf(call).intent) = 2
    /\ dedupe[TokenOf(call)] = 0
    /\ call.now_value = <<1>>
    /\ clock = 1

\* The reason code of the first gate, in the documented order, that the
\* finished call c fails, given the dedupe map it started with; "" if none
FirstFailingGate(c, map) ==
    LET response == c.response[1]
        intent == response.intent
        window == EffectiveWindow(guardrails, c.options, intent)
        hours == guardrails.allowed_hours[intent]
    IN IF /\ NIGHT_ENABLED_IN(c.options)
          /\ c.night_hour[1] \in WindowHours(c.options[OPT_NIGHT_MODE_START_HOUR],
                                             c.options[OPT_NIGHT_MODE_END_HOUR])
       THEN "night_mode_active"
       ELSE IF intent \in guardrails.disabled_intents
       THEN "intent_disabled"
       ELSE IF /\ intent \in DOMAIN guardrails.intent_thresholds
               /\ response.confidence < guardrails.intent_thresholds[intent]
       THEN "intent_threshold"
       ELSE IF /\ OPT_ENABLE_CONFIDENCE_GATE \in DOMAIN c.options
               /\ c.options[OPT_ENABLE_CONFIDENCE_GATE]
               /\ response.confidence < c.options[OPT_CONFIDENCE_THRESHOLD]
       THEN "confidence_gate"
       ELSE IF /\ window > 0
               /\ TokenOf(c) \in DOMAIN map
               /\ c.now_value[1] - map[TokenOf(c)] < window
       THEN "duplicate_suppressed"
       ELSE IF response.required_secondary_signals # <<>> /\ AbsentSignals(c) # {}
       THEN "missing_secondary_signals"
       ELSE IF /\ intent \in guardrails.dangerous_intents
               /\ intent \in DOMAIN guardrails.allowed_hours
               /\ hours[1] # hours[2]
               /\ c.allowed_hour[1] \notin WindowHours(hours[1], hours[2])
       THEN "dangerous_intent_after_hours"
       ELSE IF /\ intent \in guardrails.dangerous_intents
               /\ ~CarriesVerification(response.params)
       THEN "dangerous_intent_missing_verification"
       ELSE ""

\* What the finished call c consulted: the adapter, the monotonic clock at
\* the duplicate gate, the signal provider, the hour of the allowed-hours
\* gate, the executor
Consulted(c) ==
    << c.interpret_calls > 0, c.now_value # <<>>, c.provided # <<>>,
       c.allowed_hour # <<>>, c.executor_calls > 0 >>

(* C28: the gates run in the order night mode, disabled intent, per-intent  *)
(* threshold, global confidence, duplicate suppression, secondary signals,  *)
(* allowed hours, verification. The reason reported is that of the first    *)
(* gate the call fails, however many later gates it would fail too, and     *)
(* nothing a later gate needs is consulted: not the adapter after night     *)
(* mode, not the clock or the dedupe map after a confidence gate, not the   *)
(* signal provider after a duplicate, not the hour after missing signals,   *)
(* and never the executor.                                                  *)
C28_FirstFailingGateDecides ==
    [][ (Handled /\ call'.state = "returned") =>
          LET first == FirstFailingGate(call', dedupe)
          IN /\ first # "" => call'.outcome = "blocked" /\ call'.reason = first
             /\ call'.outcome = "blocked"
                    => call'.reason = IF first # "" THEN first
                                      ELSE "dangerous_intent_missing_verification"
             /\ call'.reason = "dangerous_intent_missing_verification"
                    => call'.response[1].intent \in guardrails.dangerous_intents
             /\ call'.outcome # "blocked"
                    => Consulted(call')[1] /\ Consulted(call')[2] /\ Consulted(call')[5]
             /\ first = "night_mode_active"
                    => Consulted(call') = <<FALSE, FALSE, FALSE, FALSE, FALSE>>
                       /\ dedupe' = dedupe
             /\ first \in {"intent_disabled", "intent_threshold", "confidence_gate"}
                    => Consulted(call') = <<TRUE, FALSE, FALSE, FALSE, FALSE>>
                       /\ dedupe' = dedupe
             /\ first = "duplicate_suppressed"
                    => Consulted(call') = <<TRUE, TRUE, FALSE, FALSE, FALSE>>
             /\ first = "missing_secondary_signals"
                    => Consulted(call') = <<TRUE, TRUE, TRUE, FALSE, FALSE>>
             /\ first \in {"dangerous_intent_after_hours",
                           "dangerous_intent_missing_verification"}
                    => ~Consulted(call')[5] ]_vars

\* A response that is disabled, below its own threshold, below the global
\* threshold and a repeat of a stored token is reported as disabled
C28_Witness ==
    /\ Answered(call)
    /\ call.reason = "intent_disabled"
    /\ call.response[1].intent \in DOMAIN guardrails.intent_thresholds
    /\ call.response[1].confidence < guardrails.intent_thresholds[call.response[1].intent]
    /\ OPT_ENABLE_CONFIDENCE_GATE \in DOMAIN call.options
    /\ call.options[OPT_ENABLE_CONFIDENCE_GATE]
    /\ call.response[1].confidence < call.options[OPT_CONFIDENCE_THRESHOLD]
    /\ ~CarriesVerification(call.response[1].params)
    /\ dedupe # <<>>

\* Coroutine t has called the executor and is suspended in it
AwaitsExecutor(t) == tasks[t].pc = "executor"

\* Coroutines t and u hold identical responses, and read the monotonic clock
\* at the duplicate gate less than the dedupe window apart
RepeatInWindow(t, u) ==
    /\ tasks[t].c.response = tasks[u].c.response
    /\ dedupe_window(tasks[u].c, tasks[u].c.response[1]) > 0
    /\ tasks[u].c.now_value[1] >= tasks[t].c.now_value[1]
    /\ tasks[u].c.now_value[1] - tasks[t].c.now_value[1]
         < dedupe_window(tasks[u].c, tasks[u].c.response[1])

(* C29: when two interleaved async_handle calls receive identical responses *)
(* and the second reaches the duplicate gate while the first still awaits   *)
(* the executor, the executor is invoked for at most one of them within the *)
(* dedupe window: the two are never both in the executor.                   *)
C29_InterleavedRepeatExecutesOnce ==
    \A t \in TaskIds, u \in TaskIds :
        (t # u /\ AwaitsExecutor(t) /\ AwaitsExecutor(u)) => ~RepeatInWindow(t, u)

\* This step is one CatalogSliceCache.get call
CacheGet == catalog_cache' # catalog_cache /\ catalog_cache'.last # <<>>

\* The slice cached under (key, fingerprint), <<>> if there is none
CachedSlice(cache, key, fingerprint) ==
    IF \E i \in 1..Len(cache.data) :
          cache.data[i].key = key /\ cache.data[i].fingerprint = fingerprint
    THEN <<(CHOOSE e \in { cache.data[i] : i \in 1..Len(cache.data) } :
               e.key = key /\ e.fingerprint = fingerprint).value>>
    ELSE <<>>

Capacity(recorder) == IF recorder.max_events > 1 THEN recorder.max_events ELSE 1

\* What iter_recent yields is strictly increasing in call number
OldestToNewest(yielded) ==
    \A i \in 1..Len(yielded), j \in 1..Len(yielded) :
        i < j => yielded[i].number < yielded[j].number

(* C22: after any sequence of record_event calls the recorder holds at most *)
(* max(1, max_events) events; iter_recent yields them oldest to newest; an  *)
(* event just recorded is the newest held, and recording into a full buffer *)
(* drops the oldest event only, so what is held is always the most recently *)
(* recorded events.                                                         *)
C22_RingBufferKeepsMostRecent ==
    [][LET before == iter_recent(telemetry_recorder)
           after == iter_recent(telemetry_recorder')
           capacity == Capacity(telemetry_recorder')
       IN /\ Len(after) <= capacity
          /\ OldestToNewest(after)
          /\ telemetry_recorder'.last = "recorded" =>
                /\ after # <<>>
                /\ after[Len(after)].number = telemetry_recorder'.calls
                /\ IF Len(before) = capacity
                   THEN after = Append(Tail(before), after[Len(after)])
                   ELSE after = Append(before, after[Len(after)])
          /\ telemetry_recorder'.last # "recorded" => after = before]_vars

\* A full recorder of capacity two has just dropped its oldest event
C22_Witness ==
    /\ telemetry_recorder # <<>>
    /\ telemetry_recorder.max_events = 2
    /\ telemetry_recorder.last = "recorded"
    /\ Len(telemetry_recorder.events) = 2
    /\ telemetry_recorder.events[1].number > 1

\* The entries of a typed field that a conversion accepts
ValidEntries(field, convert(_)) ==
    { k \in DOMAIN field.entries : convert(field.entries[k]) # <<>> }

(* C26: whichever form the fields arrive in (JSON-encoded strings,          *)
(* comma-separated strings, native collections) from_mapping produces the   *)
(* bundle it produces from the native collections; and of the native        *)
(* entries exactly the valid ones are kept: a non-numeric threshold, an     *)
(* hour outside 0..23 and a negative window are dropped, the others stay.   *)
C26_SameBundleFromEveryForm ==
    guardrail_config # <<>> =>
        LET typed == guardrail_config.typed
        IN /\ guardrails = from_mapping(typed)
           /\ DOMAIN guardrails.intent_thresholds
                = ValidEntries(typed[OPT_INTENT_THRESHOLDS], try_float)
           /\ DOMAIN guardrails.allowed_hours
                = ValidEntries(typed[OPT_ALLOWED_HOURS], _coerce_hours)
           /\ \A k \in DOMAIN guardrails.allowed_hours :
                 /\ guardrails.allowed_hours[k][1] \in 0..23
                 /\ guardrails.allowed_hours[k][2] \in 0..23
           /\ DOMAIN guardrails.recent_command_windows
                = { k \in ValidEntries(typed[OPT_RECENT_COMMAND_WINDOW_OVERRIDES], try_float) :
                      try_float(typed[OPT_RECENT_COMMAND_WINDOW_OVERRIDES].entries[k])[1] >= 0 }

\* The texts the cache of service s holds
CachedTexts(s) == { s.cache[i].text : i \in 1..Len(s.cache) }

\* The texts of a call that the cache of s does not hold, in input order
Uncached(s, texts) ==
    LET Misses(text) == text \notin CachedTexts(s)
    IN SelectSeq(texts, Misses)

\* The vector the cache of s holds for text
CachedVector(s, text) ==
    (CHOOSE e \in { s.cache[i] : i \in 1..Len(s.cache) } : e.text = text).vector

(* C27: embed calls the backend only when a text of the call is not cached, *)
(* and then with exactly the uncached texts in input order; no backend call *)
(* is issued while another one is in flight, overlapping calls waiting for  *)
(* the lock, so a text is not requested again while a request for it is     *)
(* pending or while it stays cached; a call that returns yields one vector  *)
(* per input text in input order, the cached vector for a text that was     *)
(* cached and the backend's for the others; and the cache never holds more  *)
(* than cache_size entries.                                                 *)
C27_BackendOnlyForUncachedTexts ==
    [][LET s == embedding_service
           n == embedding_service'
       IN /\ Len(n.cache) <= n.cache_size
          /\ Cardinality(CachedTexts(n)) = Len(n.cache)
          /\ \A t \in EmbedTasks :
               LET before == s.calls[t]
                   after == n.calls[t]
               IN /\ (before.pc \in {"idle", "waiting"} /\ after.pc = "generate") =>
                        /\ after.pending = Uncached(s, after.texts)
                        /\ after.pending # <<>>
                        /\ n.generated = s.generated + 1
                        /\ \A u \in EmbedTasks \ {t} :
                              /\ s.calls[u].pc # "generate"
                              /\ n.calls[u].pc # "generate"
                        /\ \A i \in 1..Len(after.texts) :
                              after.results[i] =
                                 IF after.texts[i] \in CachedTexts(s)
                                 THEN <<CachedVector(s, after.texts[i])>>
                                 ELSE <<>>
                  /\ (before.pc \in {"idle", "waiting"} /\ after.pc = "done") =>
                        /\ Uncached(s, after.texts) = <<>>
                        /\ n.generated = s.generated
                        /\ after.error = ""
                        /\ Len(after.returned) = Len(after.texts)
                        /\ \A i \in 1..Len(after.texts) :
                              after.returned[i] = CachedVector(s, after.texts[i])
                  /\ (before.pc = "generate" /\ after.pc = "done" /\ after.error = "") =>
                        /\ Len(after.returned) = Len(after.texts)
                        /\ \A i \in 1..Len(after.texts) :
                              /\ after.returned[i] # EmptyVector
                              /\ after.returned[i].text = after.texts[i]
                              /\ after.returned[i] =
                                    IF before.results[i] # <<>>
                                    THEN before.results[i][1]
                                    ELSE Vector(after.texts[i], before.generation)]_vars

\* Two overlapping calls for the same text have both returned its vector: the
\* second waited for the lock and was served from the cache, the backend
\* having been called once
C27_Witness ==
    /\ embedding_service # <<>>
    /\ embedding_service.generated = 1
    /\ \E t \in EmbedTasks, u \in EmbedTasks :
          /\ t # u
          /\ embedding_service.calls[t].pc = "done"
          /\ embedding_service.calls[u].pc = "done"
          /\ ~embedding_service.calls[t].waited
          /\ embedding_service.calls[u].waited
          /\ embedding_service.calls[t].error = ""
          /\ embedding_service.calls[u].error = ""
          /\ embedding_service.calls[t].texts = <<"alpha", "beta">>
          /\ embedding_service.calls[u].texts = <<"beta">>
          /\ embedding_service.calls[u].returned = <<embedding_service.calls[t].returned[2]>>

\* What every step does to the entries of the dedupe map: an entry is new or
\* changed only in a call that executed under a positive window, whose token
\* it belongs to and whose gate time it holds
EntriesWrittenByExecutions ==
    \A t \in DOMAIN dedupe' :
        (t \notin DOMAIN dedupe \/ dedupe'[t] # dedupe[t])
        => /\ Handled
           /\ Answered(call')
           /\ call'.outcome = "executed"
           /\ call'.executor = "ok"
           /\ EffectiveWindow(guardrails, call'.options, call'.response[1].intent) > 0
           /\ t = TokenOf(call')
           /\ call'.now_value # <<>>
           /\ dedupe'[t] = call'.now_value[1]

\* A call that ends blocked or failed, or runs under a window of zero, adds
\* and changes nothing
NoWriteOtherwise ==
    ( /\ Handled
      /\ \/ call'.state = "raised"
         \/ call'.outcome \in {"blocked", "failed"}
         \/ /\ Answered(call')
            /\ EffectiveWindow(guardrails, call'.options, call'.response[1].intent) <= 0 )
    => \A t \in DOMAIN dedupe' : t \in DOMAIN dedupe /\ dedupe'[t] = dedupe[t]

(* C31 as stated: every entry of the dedupe map is written by a call that   *)
(* executed under a positive window, for its own token and with its gate    *)
(* time; blocked, failed and zero-window calls write nothing; and every     *)
(* evaluation whose window is zero or less empties the whole map.           *)
C31_Original ==
    [][ /\ EntriesWrittenByExecutions
        /\ NoWriteOtherwise
        /\ ( /\ Handled
             /\ Answered(call')
             /\ EffectiveWindow(guardrails, call'.options, call'.response[1].intent) <= 0 )
           => dedupe' = <<>> ]_vars

(* C31 amended: as above, but only an evaluation that gets as far as the    *)
(* duplicate gate (where the clock is read and the map pruned) empties the  *)
(* map when its window is zero or less; one stopped by an earlier gate      *)
(* leaves the map untouched whatever its window.                            *)
C31_DedupeEntriesComeFromExecutions ==
    [][ /\ EntriesWrittenByExecutions
        /\ NoWriteOtherwise
        /\ ( /\ Handled
             /\ Answered(call')
             /\ EffectiveWindow(guardrails, call'.options, call'.response[1].intent) <= 0 )
           => IF call'.now_value # <<>> THEN dedupe' = <<>> ELSE dedupe' = dedupe ]_vars

\* A later call under a window of zero has reached the duplicate gate and
\* executed, and the map is empty
C31_Witness ==
    /\ Answered(call)
    /\ EffectiveWindow(guardrails, call.options, call.response[1].intent) = 0
    /\ call.now_value # <<>>
    /\ call.outcome = "executed"
    /\ dedupe = <<>>
    /\ clock > 0

\* The shared secret the options ask for: none when the option is absent
OptionSecret(options) ==
    IF OPT_ADAPTER_SHARED_SECRET \in DOMAIN options
    THEN options[OPT_ADAPTER_SHARED_SECRET]
    ELSE ""

(* C32: every async_handle call, one blocked by night mode or refused by   *)
(* the adapter included, leaves the adapter's secret equal to the option  *)
(* value of that call: the secret is left alone when the option equals the  *)
(* value the previous call applied and is replaced when it differs, so the  *)
(* adapter's next signature is the HMAC under the current option, and there *)
(* is no signature when the option is absent or empty.                      *)
C32_SecretFollowsOption ==
    [][Handled =>
        LET option == OptionSecret(call'.options)
        IN /\ adapter_shared_secret' = option
           /\ last_shared_secret' = <<option>>
           /\ last_shared_secret = <<option>>
                 => UNCHANGED <<adapter_shared_secret, last_shared_secret>>
           /\ (last_shared_secret # <<>> /\ last_shared_secret # <<option>>)
                 => adapter_shared_secret' # adapter_shared_secret
           /\ \A utterance \in Utterances, catalog \in Catalogs :
                 _build_signature(adapter_shared_secret', RequestBody(utterance, catalog))
                    = IF option = ""
                      THEN <<>>
                      ELSE <<HmacSha256(option, RequestBody(utterance, catalog))>>]_vars

\* A call blocked by night mode has replaced the secret of an earlier call
C32_Witness ==
    /\ call.state = "returned"
    /\ call.reason = "night_mode_active"
    /\ OptionSecret(call.options) = "beta"
    /\ adapter_shared_secret = "beta"
    /\ last_shared_secret = <<"beta">>
    /\ dedupe # <<>>

\* The text of the chunks, joined
RECURSIVE Joined(_)
Joined(chunks) == IF chunks = <<>> THEN <<>> ELSE Head(chunks) \o Joined(Tail(chunks))

\* The text the call has read so far, and the text of the whole upstream
ConsumedText == Joined(SubSeq(model_client.chunks, 1, model_client.position))
UpstreamText == Joined(model_client.chunks)

\* The pieces of the upstream text between its newlines: all but the last
\* are its terminated lines
UpstreamPieces == str_split(UpstreamText, NEWLINE)
TerminatedLines == 1..(Len(UpstreamPieces) - 1)

\* The terminated lines that carry the literal terminator
TerminatorLines ==
    { n \in TerminatedLines :
        \/ strip(UpstreamPieces[n]) = DONE
        \/ /\ startswith(strip(UpstreamPieces[n]), DATA_PREFIX)
           /\ strip(SubSeq(strip(UpstreamPieces[n]), Len(DATA_PREFIX) + 1,
                           Len(strip(UpstreamPieces[n])))) = DONE }

(* C34: once the upstream has delivered the literal [DONE] line, the stream  *)
(* call yields no response from any line that arrives after it.             *)
C34_NothingYieldedAfterDone ==
    \A k \in 1..Len(model_client.origins) :
        \A n \in TerminatorLines : model_client.origins[k] < n

\* The same call with its text delivered in one chunk
OneChunk(text) == ModelClient_run(ModelClientCall(<<text>>, model_client.threshold))

Observed(s) == [yielded |-> s.yielded, origins |-> s.origins, error |-> s.error]

NewlinesIn(text) == Cardinality({i \in 1..Len(text) : text[i] = NEWLINE})

(* C35: what the stream call yields is fixed by the concatenated upstream   *)
(* text, however it is cut into chunks: at every moment the responses are   *)
(* those of the text read so far delivered as one chunk, and a finished     *)
(* call ends as the call on the whole text in one chunk does. A line gives  *)
(* nothing before its newline has arrived, at most one response after it,   *)
(* and an empty line gives none.                                            *)
C35_ChunkingDoesNotMatter ==
    /\ Observed(model_client) = Observed(OneChunk(ConsumedText))
    /\ model_client.state # "open"
          => /\ Observed(model_client) = Observed(OneChunk(UpstreamText))
             /\ model_client.state = OneChunk(UpstreamText).state
    /\ model_client.lines <= NewlinesIn(ConsumedText)
    /\ \A k \in 1..Len(model_client.origins) :
          /\ model_client.origins[k] <= model_client.lines
          /\ strip(UpstreamPieces[model_client.origins[k]]) # <<>>
          /\ _collect_line(UpstreamPieces[model_client.origins[k]])
                = Yields(model_client.yielded[k])
          /\ k > 1 => model_client.origins[k - 1] < model_client.origins[k]

\* A line cut inside its data: prefix and again inside its JSON object has
\* yielded its response
C35_Witness ==
    /\ model_client.state = "closed"
    /\ Len(model_client.chunks) = 3
    /\ model_client.chunks[1] = <<"d", "a">>
    /\ model_client.chunks[2] = <<"t", "a", ":", " ", "{">>
    /\ model_client.origins = <<1>>
    /\ model_client.yielded[1].confidence = 50

\* The upstream text without what follows its last newline
TerminatedText ==
    SubSeq(UpstreamText, 1, Len(UpstreamText) - Len(UpstreamPieces[Len(UpstreamPieces)]))

(* C36: the text after the last newline is never parsed. A call that reads  *)
(* the upstream to its close has taken exactly the terminated lines, still  *)
(* holds the unterminated rest in its buffer, and has yielded what the text *)
(* without that rest yields: nothing comes from the rest, even when it is a *)
(* complete JSON object.                                                    *)
C36_UnterminatedLineIsNotParsed ==
    /\ \A k \in 1..Len(model_client.origins) : model_client.origins[k] \in TerminatedLines
    /\ model_client.state = "closed"
          => /\ model_client.lines = Len(UpstreamPieces) - 1
             /\ model_client.buffer = UpstreamPieces[Len(UpstreamPieces)]
             /\ Observed(model_client) = Observed(OneChunk(TerminatedText))

\* The upstream closed behind a complete JSON object without a newline, and
\* nothing was yielded
C36_Witness ==
    /\ model_client.state = "closed"
    /\ model_client.buffer = JsonObject(MEMBERS_HIGH)
    /\ json_loads(model_client.buffer) # <<>>
    /\ model_client.lines = 1
    /\ model_client.yielded = <<>>

\* The candidates of the stream call in hand
CandidateIndexes == 1..Len(streaming_model.candidates)

\* Candidate k has been taken from the model and is not waiting for repair
Processed(k) ==
    /\ k <= streaming_model.position
    /\ ~(streaming_model.phase = "repairing" /\ k = streaming_model.position)

\* Candidate k passes validation as it came
ValidAsStreamed(k) == _coerce_to_response(streaming_model.candidates[k], TRUE).kind = "response"

\* The repaired payload of candidate k passed its validation
RepairedValid(k) ==
    /\ streaming_model.answers[k] # <<>>
    /\ streaming_model.answers[k][1].kind = "payload"
    /\ _coerce_to_response(streaming_model.answers[k][1].payload[1], FALSE).kind = "response"

RepairSafety ==
    \A k \in CandidateIndexes :
        /\ streaming_model.repairs[k] <= 1
        /\ streaming_model.revalidations[k] <= streaming_model.repairs[k]
        /\ Len(streaming_model.answers[k]) <= streaming_model.repairs[k]
        /\ k <= streaming_model.position
              => streaming_model.repairs[k] = (IF ValidAsStreamed(k) THEN 0 ELSE 1)
        /\ Processed(k)
              => /\ Len(streaming_model.answers[k]) = streaming_model.repairs[k]
                 /\ (\E i \in 1..Len(streaming_model.origins) : streaming_model.origins[i] = k)
                       <=> (ValidAsStreamed(k) \/ RepairedValid(k))
        /\ \A i, j \in 1..Len(streaming_model.origins) :
              i < j => streaming_model.origins[i] < streaming_model.origins[j]

SearchFailed(collection) ==
    /\ streaming_model.searches[collection].pc = "done"
    /\ streaming_model.searches[collection].answer[1].kind \in {"raises", "http_error", "timeout"}

(* C37: the searches of ha_entities and plex_media are started together and *)
(* the retrieval returns only when both are done; a search that raises or   *)
(* times out leaves its own collection empty, and the other collection      *)
(* carries the normalized points its own search found.                      *)
C37_FailedSearchEmptiesOnlyItsCollection ==
    /\ streaming_model.phase = "retrieving"
          => /\ DOMAIN streaming_model.searches = CollectionNames
             /\ streaming_model.retrieved = <<>>
    /\ (streaming_model.phase = "retrieved" /\ streaming_model.vector # <<>>)
          => \A collection \in CollectionNames :
                /\ streaming_model.searches[collection].pc = "done"
                /\ SearchFailed(collection)
                      => streaming_model.retrieved[1][collection] = <<>>
                /\ (streaming_model.host # ""
                    /\ streaming_model.searches[collection].answer[1].kind = "result")
                      => streaming_model.retrieved[1][collection]
                            = _normalize_retrieved(
                                  collection,
                                  streaming_model.searches[collection].answer[1].items)

\* The search of ha_entities raised and the points of plex_media are returned
C37_Witness ==
    /\ streaming_model.phase = "retrieved"
    /\ streaming_model.host # ""
    /\ streaming_model.vector # <<>>
    /\ streaming_model.searches["ha_entities"].answer[1].kind = "raises"
    /\ streaming_model.searches["plex_media"].answer[1].kind = "result"
    /\ streaming_model.retrieved[1]["ha_entities"] = <<>>
    /\ Len(streaming_model.retrieved[1]["plex_media"]) = 2

\* The pairs (key, fingerprint) of the entries, least recently used first
CachedPairs(data) == [i \in 1..Len(data) |-> <<data[i].key, data[i].fingerprint>>]

(* C38: after every get the cache holds at most max_size entries, one per   *)
(* pair. A hit moves its entry to the most recently used end and leaves the *)
(* order of the others; a miss appends the new entry and, when the cache    *)
(* was full, evicts exactly the least recently used one. So with capacity 2 *)
(* an entry is gone, and rebuilt on its next get, once two other pairs have *)
(* been inserted since its last use.                                        *)
C38_LeastRecentlyUsedIsEvicted ==
    [][CacheGet =>
         LET data == catalog_cache.data
             after == catalog_cache'.data
             got == catalog_cache'.last[1]
             entry == after[Len(after)]
         IN /\ Len(after) <= catalog_cache.max_size
            /\ \A i, j \in 1..Len(after) :
                  CachedPairs(after)[i] = CachedPairs(after)[j] => i = j
            /\ after # <<>>
            /\ entry.key = got.key /\ entry.fingerprint = got.fingerprint
            /\ entry.value = got.value
            /\ ~got.built
                  => \E i \in 1..Len(data) :
                        /\ data[i] = entry
                        /\ SubSeq(after, 1, Len(after) - 1) = Without(data, i)
            /\ got.built
                  => SubSeq(after, 1, Len(after) - 1)
                        = IF Len(data) = catalog_cache.max_size THEN Tail(data) ELSE data]_vars

\* Capacity 2: a pair was built first, two other pairs were inserted after
\* it, and its next get has built it again
C38_Witness ==
    /\ catalog_cache.max_size = 2
    /\ catalog_cache.builds = 4
    /\ catalog_cache.last # <<>>
    /\ catalog_cache.last[1].built
    /\ Len(catalog_cache.data) = 2
    /\ catalog_cache.data[1].value = 3
    /\ catalog_cache.data[2].value = 4
    /\ catalog_cache.data[2].key = "turn on the lights"
    /\ catalog_cache.data[2].fingerprint = "3f2a"
    /\ catalog_cache.data[1].key = "dim the lights"

(* C39: when record_event raises, async_handle ends as it would have: it    *)
(* lets no exception through; a call whose executor succeeded returns       *)
(* success with the intent_executed reason, and its token is in the dedupe  *)
(* map with the time read at the duplicate gate when the window is          *)
(* positive; a call whose executor failed returns failure.                  *)
C39_TelemetryFailureIsSwallowed ==
    [][(Handled /\ RecorderRaises /\ call'.telemetry # <<>>) =>
         /\ call'.exception = ""
         /\ call'.telemetry_errors = Len(call'.telemetry)
         /\ call'.executor = "ok"
               => /\ call'.success
                  /\ call'.outcome = "executed"
                  /\ call'.reason = "intent_executed"
                  /\ call'.telemetry = <<"executed">>
                  /\ EffectiveWindow(guardrails, call'.options, call'.response[1].intent) > 0
                        => /\ TokenOf(call') \in DOMAIN dedupe'
                           /\ dedupe'[TokenOf(call')] = call'.now_value[1]
         /\ call'.executor \in {"IntentHandlingError", "Exception"}
               => /\ ~call'.success
                  /\ call'.outcome = "failed"
                  /\ call'.telemetry = <<"failed">>
                  /\ dedupe' = _prune_dedupe(
                                   dedupe, call'.now_value[1],
                                   EffectiveWindow(guardrails, call'.options,
                                                   call'.response[1].intent))]_vars

\* record_event raised after a successful execution, and the call returned
\* success with its timestamp in the dedupe map
C39_Witness ==
    /\ call.state = "returned"
    /\ RecorderRaises
    /\ call.telemetry_errors = 1
    /\ call.executor = "ok"
    /\ call.success
    /\ call.exception = ""
    /\ TokenOf(call) \in DOMAIN dedupe
    /\ clock > 0

\* The options that switch night mode on from start to end
NightWindow(start, end) ==
    [night_mode_enabled |-> TRUE, night_mode_start_hour |-> start, night_mode_end_hour |-> end]

(* C40: a window whose start hour is its end hour means the whole day to    *)
(* both time checks, with opposite effect. Night mode from an hour to the   *)
(* same hour is active at every hour of the day, so every call under it is  *)
(* blocked as night_mode_active before the adapter is asked. Allowed hours  *)
(* from an hour to the same hour contain every hour of the day, so no call  *)
(* for the dangerous intent is blocked as after hours.                      *)
C40_EqualHoursMeanAlways ==
    [][/\ \A same \in AllHours, hour \in AllHours :
             /\ _night_mode_active(NightWindow(same, same), <<hour>>)
             /\ _within_allowed_hours(<<same, same>>, hour)
       /\ Handled =>
             /\ (/\ get(call'.options, OPT_NIGHT_MODE_ENABLED, DEFAULT_NIGHT_MODE_ENABLED)
                 /\ call'.options[OPT_NIGHT_MODE_START_HOUR]
                       = call'.options[OPT_NIGHT_MODE_END_HOUR])
                   => /\ call'.reason = "night_mode_active"
                      /\ call'.outcome = "blocked"
                      /\ call'.interpret_calls = 0
                      /\ call'.executor_calls = 0
             /\ call'.allowed_hour # <<>>
                   => /\ call'.reason # "dangerous_intent_after_hours"
                      /\ _has_verification_flags(call'.response[1])
                            => call'.executor_calls = 1]_vars

\* A call at the very hour of the window was blocked by night mode
C40_Witness ==
    /\ call.state = "returned"
    /\ call.reason = "night_mode_active"
    /\ call.night_hour = <<12>>
    /\ call.options[OPT_NIGHT_MODE_START_HOUR] = 12
    /\ call.options[OPT_NIGHT_MODE_END_HOUR] = 12

\* A dangerous intent whose allowed hours start and end at the same hour was
\* executed at another hour
C40_WitnessAllowed ==
    /\ call.state = "returned"
    /\ call.allowed_hour # <<>>
    /\ guardrails.allowed_hours["unlock_door"] = <<22, 22>>
    /\ call.allowed_hour[1] = 3
    /\ call.executor_calls = 1

====
